---- MODULE Spec2Model ----
(***************************************************************************)
(* Workout diary: the Exercise record (gym/models.py), the numeral         *)
(* normalizer and the CLI parser (gym/parser.py), the record store         *)
(* (gym/db.py) and the bot's add handlers (bot/handlers.py).               *)
(*                                                                         *)
(* Text is a sequence of characters.  A character is a one-element string; *)
(* a Cyrillic letter is written "~" followed by its transliteration, in    *)
(* upper case for the capital letter ("~zh" is the small zhe, "~ZH" the    *)
(* capital one, "~yo"/"~YO" the letter yo, "~e"/"~E" the letter ye).       *)
(* An optional value is a sequence of length 0 (None) or 1.                *)
(***************************************************************************)
EXTENDS Integers, Sequences, FiniteSets, TLC

VARIABLES initialized, rows, seq, now, op, conn, inflight

vars == <<initialized, rows, seq, now, op, conn, inflight>>

None == <<>>

Some(x) == <<x>>

(***************************************************************************)
(* Characters and the two case foldings: Python's str.lower() folds every  *)
(* cased letter, SQLite's built-in LOWER() folds the ASCII letters only.   *)
(***************************************************************************)
CyrLower == {"~a", "~b", "~v", "~g", "~d", "~e", "~yo", "~zh", "~z", "~i", "~k", "~l", "~m", "~n", "~o", "~p", "~r", "~s", "~t", "~h", "~ts", "~ch", "~sh", "~y", "~q", "~ya"}
CyrUpper == {"~A", "~B", "~V", "~G", "~D", "~E", "~YO", "~ZH", "~Z", "~I", "~K", "~L", "~M", "~N", "~O", "~P", "~R", "~S", "~T", "~H", "~TS", "~CH", "~SH", "~Y", "~Q", "~YA"}
CyrToLower ==
       ("~A" :> "~a")
    @@ ("~B" :> "~b")
    @@ ("~V" :> "~v")
    @@ ("~G" :> "~g")
    @@ ("~D" :> "~d")
    @@ ("~E" :> "~e")
    @@ ("~YO" :> "~yo")
    @@ ("~ZH" :> "~zh")
    @@ ("~Z" :> "~z")
    @@ ("~I" :> "~i")
    @@ ("~K" :> "~k")
    @@ ("~L" :> "~l")
    @@ ("~M" :> "~m")
    @@ ("~N" :> "~n")
    @@ ("~O" :> "~o")
    @@ ("~P" :> "~p")
    @@ ("~R" :> "~r")
    @@ ("~S" :> "~s")
    @@ ("~T" :> "~t")
    @@ ("~H" :> "~h")
    @@ ("~TS" :> "~ts")
    @@ ("~CH" :> "~ch")
    @@ ("~SH" :> "~sh")
    @@ ("~Y" :> "~y")
    @@ ("~Q" :> "~q")
    @@ ("~YA" :> "~ya")
AsciiToLower ==
       ("A" :> "a")
    @@ ("B" :> "b")
    @@ ("C" :> "c")
    @@ ("D" :> "d")
    @@ ("E" :> "e")
    @@ ("F" :> "f")
    @@ ("G" :> "g")
    @@ ("H" :> "h")
    @@ ("I" :> "i")
    @@ ("J" :> "j")
    @@ ("K" :> "k")
    @@ ("L" :> "l")
    @@ ("M" :> "m")
    @@ ("N" :> "n")
    @@ ("O" :> "o")
    @@ ("P" :> "p")
    @@ ("Q" :> "q")
    @@ ("R" :> "r")
    @@ ("S" :> "s")
    @@ ("T" :> "t")
    @@ ("U" :> "u")
    @@ ("V" :> "v")
    @@ ("W" :> "w")
    @@ ("X" :> "x")
    @@ ("Y" :> "y")
    @@ ("Z" :> "z")

Whitespace == {" ", "\t"}

Digits == {"0", "1", "2", "3", "4", "5", "6", "7", "8", "9"}

DigitValue ==
       ("0" :> 0) @@ ("1" :> 1) @@ ("2" :> 2) @@ ("3" :> 3) @@ ("4" :> 4)
    @@ ("5" :> 5) @@ ("6" :> 6) @@ ("7" :> 7) @@ ("8" :> 8) @@ ("9" :> 9)

DigitChar == <<"0", "1", "2", "3", "4", "5", "6", "7", "8", "9">>

\* str.lower() on one character
PyLowerChar(c) ==
    IF c \in DOMAIN AsciiToLower THEN AsciiToLower[c]
    ELSE IF c \in DOMAIN CyrToLower THEN CyrToLower[c]
    ELSE c

\* str.lower()
PyLower(s) == [i \in 1..Len(s) |-> PyLowerChar(s[i])]

\* SQLite LOWER() on one character: ASCII only
SqlLowerChar(c) == IF c \in DOMAIN AsciiToLower THEN AsciiToLower[c] ELSE c

\* SQLite LOWER(X)
SqlLower(s) == [i \in 1..Len(s) |-> SqlLowerChar(s[i])]

\* replace('ё', 'е') in Python and REPLACE(name, 'ё', 'е') in SQLite: the
\* small letter only
ReplaceYo(s) == [i \in 1..Len(s) |-> IF s[i] = "~yo" THEN "~e" ELSE s[i]]

RECURSIVE LStrip(_)
LStrip(s) ==
    IF s = <<>> THEN <<>>
    ELSE IF Head(s) \in Whitespace THEN LStrip(Tail(s))
    ELSE s

RECURSIVE RStrip(_)
RStrip(s) ==
    IF s = <<>> THEN <<>>
    ELSE IF s[Len(s)] \in Whitespace THEN RStrip(SubSeq(s, 1, Len(s) - 1))
    ELSE s

\* str.strip()
Strip(s) == RStrip(LStrip(s))

\* gym/db.py normalize_exercise_name
normalize_exercise_name(name) == Strip(ReplaceYo(PyLower(name)))

(***************************************************************************)
(* Weights are floats read from decimal text; they are kept as reduced     *)
(* fractions num/den with den > 0.                                         *)
(***************************************************************************)
RECURSIVE Gcd(_, _)
Gcd(a, b) == IF b = 0 THEN a ELSE Gcd(b, a % b)

Abs(n) == IF n < 0 THEN -n ELSE n

Rat(n, d) ==
    LET g == Gcd(Abs(n), d)
    IN  [num |-> n \div g, den |-> d \div g]

RatLess(a, b) == a.num * b.den < b.num * a.den

RatInt(n) == Rat(n, 1)

(***************************************************************************)
(* gym/models.py: Exercise.  Construction runs __post_init__, which either *)
(* raises ValueError or leaves the record as given.                        *)
(***************************************************************************)
Raise(exc, msg) == [tag |-> "raise", exc |-> exc, msg |-> msg]

Return(v) == [tag |-> "return", val |-> v]

ExerciseFields(id, name, weight, reps, sets, note, created_at) ==
    [id |-> id, name |-> name, weight |-> weight, reps |-> reps,
     sets |-> sets, note |-> note, created_at |-> created_at]

\* Exercise with the reps check off by one (reps < 0)
ExerciseRepsOffByOne(id, name, weight, reps, sets, note, created_at) ==
    IF RatLess(weight, RatInt(0))
    THEN Raise("ValueError", [id |-> "weight_negative", input |-> None, hint |-> FALSE])
    ELSE IF reps < 0
    THEN Raise("ValueError", [id |-> "reps_below_one", input |-> None, hint |-> FALSE])
    ELSE IF sets < 1
    THEN Raise("ValueError", [id |-> "sets_below_one", input |-> None, hint |-> FALSE])
    ELSE IF name = <<>> \/ Strip(name) = <<>>
    THEN Raise("ValueError", [id |-> "name_blank", input |-> None, hint |-> FALSE])
    ELSE Return(ExerciseFields(id, name, weight, reps, sets, note, created_at))

\* Exercise(...) followed by __post_init__
Exercise(id, name, weight, reps, sets, note, created_at) ==
    IF RatLess(weight, RatInt(0))
    THEN Raise("ValueError", [id |-> "weight_negative", input |-> None, hint |-> FALSE])
    ELSE IF reps < 1
    THEN Raise("ValueError", [id |-> "reps_below_one", input |-> None, hint |-> FALSE])
    ELSE IF sets < 1
    THEN Raise("ValueError", [id |-> "sets_below_one", input |-> None, hint |-> FALSE])
    ELSE IF name = <<>> \/ Strip(name) = <<>>
    THEN Raise("ValueError", [id |-> "name_blank", input |-> None, hint |-> FALSE])
    ELSE Return(ExerciseFields(id, name, weight, reps, sets, note, created_at))

\* a rational times an integer
RatMul(a, n) == Rat(a.num * n, a.den)

\* total_volume returning weight * reps
total_volume_of_one_set(e) == RatMul(e.weight, e.reps)

\* the property total_volume: self.weight * self.reps * self.sets
total_volume(e) == RatMul(RatMul(e.weight, e.reps), e.sets)

(***************************************************************************)
(* gym/db.py: the record store.  rows is the content of table exercises,   *)
(* seq the AUTOINCREMENT counter (sqlite_sequence), initialized whether    *)
(* the table exists, now the clock, in ticks of 1/DayTicks of a day.       *)
(***************************************************************************)
MaxRows == 2

\* one id more than rows, so that an id is freed and the next one assigned
MaxSeq == MaxRows + 1

DayTicks == 1

\* the clock runs up to the first tick of the second day
MaxNow == DayTicks

Max(S) == CHOOSE x \in S : \A y \in S : y <= x

Min(S) == CHOOSE x \in S : \A y \in S : x <= y

Ids(rs) == {r.id : r \in rs}

\* created_at = None, a record without its time (times are 0, 1, ...)
NullTime == 0 - 1

\* the constraints with CHECK (reps >= 0)
CheckConstraintsRepsFromZero(e) ==
    /\ ~RatLess(e.weight, RatInt(0))
    /\ e.reps >= 0
    /\ e.sets >= 1
    /\ e.created_at # NullTime

\* the CHECK constraints of CREATE TABLE exercises, and NOT NULL on created_at
CheckConstraints(e) ==
    /\ ~RatLess(e.weight, RatInt(0))
    /\ e.reps >= 1
    /\ e.sets >= 1
    /\ e.created_at # NullTime

\* the rowid of an INTEGER PRIMARY KEY column without AUTOINCREMENT
NextRowIdAfterLargestRow == Max({0} \cup Ids(rows)) + 1

\* ids numbered by the count of rows instead of by the counter
NextRowIdByCount == Cardinality(rows) + 1

\* the rowid an INTEGER PRIMARY KEY AUTOINCREMENT column assigns
NextRowId == Max({seq} \cup Ids(rows)) + 1

\* the row written under the id the record carries, when it carries one
InsertedRowKeepsCarriedId(e, id) ==
    [id |-> IF e.id # None THEN e.id[1] ELSE id, name |-> Strip(e.name), weight |-> e.weight,
     reps |-> e.reps, sets |-> e.sets, note |-> e.note, created_at |-> e.created_at]

\* the row INSERT INTO exercises (...) VALUES (...) writes for record e
InsertedRow(e, id) ==
    [id |-> id, name |-> Strip(e.name), weight |-> e.weight, reps |-> e.reps,
     sets |-> e.sets, note |-> e.note, created_at |-> e.created_at]

\* Database._row_to_exercise
_row_to_exercise(row) ==
    Exercise(Some(row.id), row.name, row.weight, row.reps, row.sets, row.note,
             row.created_at).val

\* WHERE LOWER(REPLACE(name, 'ё', 'е')) = ?  with ? = normalize_exercise_name(q)
MaxWeightMatches(q) ==
    LET normalized_name == normalize_exercise_name(q)
    IN  {r \in rows : SqlLower(ReplaceYo(r.name)) = normalized_name}

\* ORDER BY weight DESC, created_at ASC LIMIT 1, columns weight, created_at
MaxWeightRows(q) ==
    LET m == MaxWeightMatches(q)
        top == {r \in m : \A o \in m : ~RatLess(r.weight, o.weight)}
    IN  {r \in top : \A o \in top : r.created_at <= o.created_at}

\* Database.get_max_weight
get_max_weight(q) ==
    LET first == MaxWeightRows(q)
    IN  IF first = {} THEN None
        ELSE LET row == CHOOSE r \in first : TRUE
             IN  Some(<<row.weight, row.created_at>>)

\* WHERE LOWER(REPLACE(name, 'ё', 'е')) = ?  in get_last_exercise
LastMatches(q) ==
    LET normalized_name == normalize_exercise_name(q)
    IN  {r \in rows : SqlLower(ReplaceYo(r.name)) = normalized_name}

\* ORDER BY created_at ASC LIMIT 1: any row of the earliest created_at
LastRowsAscending(q) ==
    LET m == LastMatches(q)
    IN  {r \in m : \A o \in m : r.created_at <= o.created_at}

\* ORDER BY created_at DESC LIMIT 1: any row of the latest created_at
LastRows(q) ==
    LET m == LastMatches(q)
    IN  {r \in m : \A o \in m : o.created_at <= r.created_at}

\* WHERE LOWER(name) = LOWER(?) AND created_at >= ?  in get_exercise_history
HistoryMatches(q, days) ==
    LET name == SqlLower(Strip(q))
        start_date == now - days * DayTicks
    IN  {r \in rows : SqlLower(r.name) = name /\ r.created_at >= start_date}

\* the orders ORDER BY created_at ASC may return the rows of rs in
SortedByCreatedAt(rs) ==
    {s \in [1..Cardinality(rs) -> rs] :
        /\ \A i, j \in 1..Cardinality(rs) : i # j => s[i] # s[j]
        /\ \A i, j \in 1..Cardinality(rs) : i < j => s[i].created_at <= s[j].created_at}

ToExercises(s) == [i \in 1..Len(s) |-> _row_to_exercise(s[i])]

\* today_start taken as the same time a day earlier
today_start_a_day_ago == now - DayTicks

\* datetime.now().replace(hour=0, minute=0, second=0, microsecond=0)
today_start == now - (now % DayTicks)

\* WHERE created_at >= today_start
TodayRows == {r \in rows : r.created_at >= today_start}

UNITS ==
       (<<"~n", "~o", "~l", "~q">> :> 0)
    @@ (<<"~o", "~d", "~i", "~n">> :> 1)
    @@ (<<"~o", "~d", "~n", "~a">> :> 1)
    @@ (<<"~d", "~v", "~a">> :> 2)
    @@ (<<"~d", "~v", "~e">> :> 2)
    @@ (<<"~t", "~r", "~i">> :> 3)
    @@ (<<"~ch", "~e", "~t", "~y", "~r", "~e">> :> 4)
    @@ (<<"~p", "~ya", "~t", "~q">> :> 5)
    @@ (<<"~sh", "~e", "~s", "~t", "~q">> :> 6)
    @@ (<<"~s", "~e", "~m", "~q">> :> 7)
    @@ (<<"~v", "~o", "~s", "~e", "~m", "~q">> :> 8)
    @@ (<<"~d", "~e", "~v", "~ya", "~t", "~q">> :> 9)
    @@ (<<"~d", "~e", "~s", "~ya", "~t", "~q">> :> 10)
    @@ (<<"~o", "~d", "~i", "~n", "~n", "~a", "~d", "~ts", "~a", "~t", "~q">> :> 11)
    @@ (<<"~d", "~v", "~e", "~n", "~a", "~d", "~ts", "~a", "~t", "~q">> :> 12)
    @@ (<<"~t", "~r", "~i", "~n", "~a", "~d", "~ts", "~a", "~t", "~q">> :> 13)
    @@ (<<"~ch", "~e", "~t", "~y", "~r", "~n", "~a", "~d", "~ts", "~a", "~t", "~q">> :> 14)
    @@ (<<"~p", "~ya", "~t", "~n", "~a", "~d", "~ts", "~a", "~t", "~q">> :> 15)
    @@ (<<"~sh", "~e", "~s", "~t", "~n", "~a", "~d", "~ts", "~a", "~t", "~q">> :> 16)
    @@ (<<"~s", "~e", "~m", "~n", "~a", "~d", "~ts", "~a", "~t", "~q">> :> 17)
    @@ (<<"~v", "~o", "~s", "~e", "~m", "~n", "~a", "~d", "~ts", "~a", "~t", "~q">> :> 18)
    @@ (<<"~d", "~e", "~v", "~ya", "~t", "~n", "~a", "~d", "~ts", "~a", "~t", "~q">> :> 19)

TENS ==
       (<<"~d", "~v", "~a", "~d", "~ts", "~a", "~t", "~q">> :> 20)
    @@ (<<"~t", "~r", "~i", "~d", "~ts", "~a", "~t", "~q">> :> 30)
    @@ (<<"~s", "~o", "~r", "~o", "~k">> :> 40)
    @@ (<<"~p", "~ya", "~t", "~q", "~d", "~e", "~s", "~ya", "~t">> :> 50)
    @@ (<<"~sh", "~e", "~s", "~t", "~q", "~d", "~e", "~s", "~ya", "~t">> :> 60)
    @@ (<<"~s", "~e", "~m", "~q", "~d", "~e", "~s", "~ya", "~t">> :> 70)
    @@ (<<"~v", "~o", "~s", "~e", "~m", "~q", "~d", "~e", "~s", "~ya", "~t">> :> 80)
    @@ (<<"~d", "~e", "~v", "~ya", "~n", "~o", "~s", "~t", "~o">> :> 90)

HUNDREDS ==
       (<<"~s", "~t", "~o">> :> 100)
    @@ (<<"~d", "~v", "~e", "~s", "~t", "~i">> :> 200)
    @@ (<<"~t", "~r", "~i", "~s", "~t", "~a">> :> 300)


(***************************************************************************)
(* gym/parser.py: the numeral normalizer.                                  *)
(***************************************************************************)
\* the index of the first whitespace character of s, Len(s) + 1 if none
RECURSIVE TokenEnd(_, _)
TokenEnd(s, p) ==
    IF p > Len(s) \/ s[p] \in Whitespace THEN p ELSE TokenEnd(s, p + 1)

\* str.split(): the maximal runs of non-whitespace characters
RECURSIVE Split(_)
Split(s) ==
    LET t == LStrip(s)
        e == TokenEnd(t, 1)
    IN  IF t = <<>> THEN <<>>
        ELSE <<SubSeq(t, 1, e - 1)>> \o Split(SubSeq(t, e, Len(t)))

\* ' '.join(tokens)
RECURSIVE Join(_)
Join(tokens) ==
    IF tokens = <<>> THEN <<>>
    ELSE IF Len(tokens) = 1 THEN tokens[1]
    ELSE tokens[1] \o <<" ">> \o Join(Tail(tokens))

\* str(n) for an integer n >= 0
RECURSIVE ToDecimal(_)
ToDecimal(n) ==
    IF n < 10 THEN <<DigitChar[n + 1]>>
    ELSE ToDecimal(n \div 10) \o <<DigitChar[(n % 10) + 1]>>

\* int(s) for a string of digits
RECURSIVE ToInt(_)
ToInt(s) ==
    IF s = <<>> THEN 0
    ELSE 10 * ToInt(SubSeq(s, 1, Len(s) - 1)) + DigitValue[s[Len(s)]]

all_number_words == DOMAIN UNITS \cup DOMAIN TENS \cup DOMAIN HUNDREDS

\* the loop of _parse_single_number over words[i..]: Some(total), or None
\* at the first unknown word
RECURSIVE SingleNumberLoop(_, _, _)
SingleNumberLoop(words, i, total) ==
    IF i > Len(words) THEN Some(total)
    ELSE LET word_lower == PyLower(words[i])
         IN  IF word_lower \in DOMAIN HUNDREDS
             THEN SingleNumberLoop(words, i + 1, total + HUNDREDS[word_lower])
             ELSE IF word_lower \in DOMAIN TENS
             THEN SingleNumberLoop(words, i + 1, total + TENS[word_lower])
             ELSE IF word_lower \in DOMAIN UNITS
             THEN SingleNumberLoop(words, i + 1, total + UNITS[word_lower])
             ELSE None

\* _parse_single_number ending in "return total if total else None"
_parse_single_number_zero_is_none(words) ==
    IF words = <<>> \/ SingleNumberLoop(words, 1, 0) = Some(0) THEN None
    ELSE SingleNumberLoop(words, 1, 0)

_parse_single_number(words) ==
    IF words = <<>> THEN None ELSE SingleNumberLoop(words, 1, 0)

\* a flush that converts every word of the run on its own
FlushEachWord(current_number_words) ==
    IF current_number_words = <<>> THEN <<>>
    ELSE [i \in 1..Len(current_number_words) |->
             ToDecimal(_parse_single_number(<<current_number_words[i]>>)[1])]

\* a flush that converts the first word of the run and keeps the others
FlushFirstWord(current_number_words) ==
    IF current_number_words = <<>> THEN <<>>
    ELSE LET parsed == _parse_single_number(<<current_number_words[1]>>)
         IN  IF parsed # None THEN <<ToDecimal(parsed[1])>> \o Tail(current_number_words)
             ELSE current_number_words

\* what a pending run of number words is replaced by
Flush(current_number_words) ==
    IF current_number_words = <<>> THEN <<>>
    ELSE LET parsed == _parse_single_number(current_number_words)
         IN  IF parsed # None THEN <<ToDecimal(parsed[1])>>
             ELSE current_number_words

\* the loop appending word_lower, not word, for the other tokens
RECURSIVE VoiceLoopLowercased(_, _, _, _)
VoiceLoopLowercased(words, i, result, current_number_words) ==
    IF i > Len(words) THEN result \o Flush(current_number_words)
    ELSE LET word_lower == PyLower(words[i])
         IN  IF word_lower \in all_number_words
             THEN VoiceLoopLowercased(words, i + 1, result,
                                      Append(current_number_words, word_lower))
             ELSE VoiceLoopLowercased(words, i + 1,
                                      (result \o Flush(current_number_words)) \o <<word_lower>>,
                                      <<>>)

\* the for loop of parse_voice_numbers from words[i] on, then the final flush
RECURSIVE VoiceLoop(_, _, _, _)
VoiceLoop(words, i, result, current_number_words) ==
    IF i > Len(words) THEN result \o Flush(current_number_words)
    ELSE LET word_lower == PyLower(words[i])
         IN  IF word_lower \in all_number_words
             THEN VoiceLoop(words, i + 1, result,
                            Append(current_number_words, word_lower))
             ELSE VoiceLoop(words, i + 1,
                            (result \o Flush(current_number_words)) \o <<words[i]>>,
                            <<>>)

parse_voice_numbers(text) == Join(VoiceLoop(Split(text), 1, <<>>, <<>>))

(***************************************************************************)
(* Regular-expression matching, as Python's backtracking matcher resolves  *)
(* the patterns of parse_add_input and parse_exercise_input.  A position   *)
(* is an index 1..Len(t)+1; a failed match is position 0.                  *)
(***************************************************************************)
At(t, p) == IF p \in 1..Len(t) THEN t[p] ELSE "$"

\* \s* from p: the first position at or after p that holds no whitespace
RECURSIVE SkipSpaces(_, _)
SkipSpaces(t, p) ==
    IF At(t, p) \in Whitespace THEN SkipSpaces(t, p + 1) ELSE p

\* \d* from p
RECURSIVE SkipDigits(_, _)
SkipDigits(t, p) ==
    IF At(t, p) \in Digits THEN SkipDigits(t, p + 1) ELSE p

\* a literal at p, compared under re.IGNORECASE when ic
LitAt(t, p, lit, ic) ==
    /\ p >= 1
    /\ p + Len(lit) - 1 <= Len(t)
    /\ LET s == SubSeq(t, p, p + Len(lit) - 1)
       IN  (IF ic THEN PyLower(s) ELSE s) = lit

\* (?:kg) at p: the Latin unit only
UnitAtLatinOnly(t, p, ic) == LitAt(t, p, <<"k", "g">>, ic)

\* (?:кг|kg) or (?:kg|кг) at p
UnitAt(t, p, ic) == LitAt(t, p, <<"~k", "~g">>, ic) \/ LitAt(t, p, <<"k", "g">>, ic)

\* [xх] at p
XAt(t, p, ic) == LitAt(t, p, <<"x">>, ic) \/ LitAt(t, p, <<"~h">>, ic)

\* (\d+(?:\.\d+)?) from p: the end of the weight, 0 if no digit at p
WeightEnd(t, p) ==
    IF At(t, p) \notin Digits THEN 0
    ELSE LET d == SkipDigits(t, p)
         IN  IF At(t, d) = "." /\ At(t, d + 1) \in Digits
             THEN SkipDigits(t, d + 1)
             ELSE d

\* \s*(?:кг|kg)?\s+ from e: the position after it, 0 if it does not match
AfterOptUnit(t, e, ic) ==
    LET u == SkipSpaces(t, e)
    IN  IF UnitAt(t, u, ic) /\ SkipSpaces(t, u + 2) > u + 2
        THEN SkipSpaces(t, u + 2)
        ELSE IF u > e THEN u ELSE 0

\* \s*(?:kg|кг)\s+ from e
AfterUnit(t, e, ic) ==
    LET u == SkipSpaces(t, e)
    IN  IF UnitAt(t, u, ic) /\ SkipSpaces(t, u + 2) > u + 2
        THEN SkipSpaces(t, u + 2)
        ELSE 0

\* \s+ from e
AfterSpaces(t, e) == IF SkipSpaces(t, e) > e THEN SkipSpaces(t, e) ELSE 0

\* (\d+) from p: its end, 0 if no digit at p
IntEnd(t, p) == IF p >= 1 /\ At(t, p) \in Digits THEN SkipDigits(t, p) ELSE 0

\* the start of (\d+) for sets after the reps ending at re:
\* \s*[xх]\s* when x, \s+ otherwise
SetsStart(t, re, x, ic) ==
    IF re = 0 THEN 0
    ELSE IF x
    THEN LET q == SkipSpaces(t, re)
         IN  IF XAt(t, q, ic) THEN SkipSpaces(t, q + 1) ELSE 0
    ELSE AfterSpaces(t, re)

\* (?:\s+(.*))?$ from se: whether it matches
NoteMatches(t, se) == se >= 1 /\ (se > Len(t) \/ At(t, se) \in Whitespace)

\* group 5 never taking part in the match
NoteGroupDropped(t, se) == None

\* group 5: None when the optional group did not take part
NoteGroup(t, se) ==
    IF se > Len(t) THEN None
    ELSE Some(SubSeq(t, SkipSpaces(t, se), Len(t)))

\* groups 2..5 once the tail has matched up to se, None if it has not
TailOf(t, p, we, rs, re, ss, se) ==
    IF se # 0 /\ NoteMatches(t, se)
    THEN Some([weight |-> SubSeq(t, p, we - 1), reps |-> SubSeq(t, rs, re - 1),
               sets |-> SubSeq(t, ss, se - 1), note |-> NoteGroup(t, se)])
    ELSE None

\* the numeric tail (\d+(?:\.\d+)?)\s*(?:кг|kg)?\s+(\d+) SEP (\d+)(?:\s+(.*))?$
\* of the two patterns of parse_add_input, matched from p: None or the groups
TailGroups(t, p, x) ==
    LET we == WeightEnd(t, p)
        rs == IF we = 0 THEN 0 ELSE AfterOptUnit(t, we, TRUE)
        re == IntEnd(t, rs)
        ss == SetsStart(t, re, x, TRUE)
        se == IntEnd(t, ss)
    IN  TailOf(t, p, we, rs, re, ss, se)

\* ^(.+?)\s+ then the tail: the ends i of group 1 at which the match succeeds
NameEnds(t, x) ==
    {i \in 1..Len(t) : /\ At(t, i + 1) \in Whitespace
                       /\ TailGroups(t, SkipSpaces(t, i + 1), x) # None}

\* the five groups of a match: group 1 ends at i, g holds groups 2..5
GroupsAt(t, i, g) ==
    [name |-> SubSeq(t, 1, i), weight |-> g.weight, reps |-> g.reps,
     sets |-> g.sets, note |-> g.note]

\* the match the regex engine reports among the ends of group 1 at which the
\* pattern succeeds: (.+?) is non-greedy, so the shortest group 1
ShortestName(t, x, ends) ==
    IF ends = {} THEN None
    ELSE Some(GroupsAt(t, Min(ends), TailGroups(t, SkipSpaces(t, Min(ends) + 1), x)[1]))

\* re.match(pattern_x, text, re.IGNORECASE) when x, re.match(pattern_spaces,
\* text, re.IGNORECASE) otherwise: None, or the groups of the first match in
\* backtracking order
MatchAdd(t, x) == ShortestName(t, x, NameEnds(t, x))

\* 10^n
RECURSIVE Pow10(_)
Pow10(n) == IF n = 0 THEN 1 ELSE 10 * Pow10(n - 1)

\* the index of "." in s, 0 if none
RECURSIVE DotIndex(_, _)
DotIndex(s, p) ==
    IF p > Len(s) THEN 0 ELSE IF s[p] = "." THEN p ELSE DotIndex(s, p + 1)

\* float(s) for digits with an optional fraction
ToFloat(s) ==
    LET d == DotIndex(s, 1)
    IN  IF d = 0 THEN RatInt(ToInt(s))
        ELSE LET frac == SubSeq(s, d + 1, Len(s))
             IN  Rat(ToInt(SubSeq(s, 1, d - 1)) * Pow10(Len(frac)) + ToInt(frac),
                     Pow10(Len(frac)))

(***************************************************************************)
(* bot/handlers.py: parse_add_input                                        *)
(***************************************************************************)
FormatHint == [id |-> "format", input |-> None, hint |-> TRUE]

\* the body of "if match:" with reps and sets raised to 1 when lower
ExerciseFromMatchClamped(m, created_at) ==
    Exercise(None, Strip(m.name), ToFloat(m.weight),
             IF ToInt(m.reps) < 1 THEN 1 ELSE ToInt(m.reps),
             IF ToInt(m.sets) < 1 THEN 1 ELSE ToInt(m.sets),
             IF m.note # None /\ m.note[1] # <<>> THEN Some(Strip(m.note[1])) ELSE None,
             created_at)

\* the body of "if match:" in parse_add_input
ExerciseFromMatch(m, created_at) ==
    Exercise(None, Strip(m.name), ToFloat(m.weight), ToInt(m.reps), ToInt(m.sets),
             IF m.note # None /\ m.note[1] # <<>> THEN Some(Strip(m.note[1])) ELSE None,
             created_at)

\* parse_add_input without its second, space-separated pattern
parse_add_input_x_only(text, created_at) ==
    LET m == MatchAdd(parse_voice_numbers(text), TRUE)
    IN  IF m # None
        THEN ExerciseFromMatch(m[1], created_at)
        ELSE Raise("ValueError", FormatHint)

\* "if match:" on the first pattern, falling through to the second
OrElse(first, second) == IF first # None THEN first ELSE second

\* pattern_spaces tried before pattern_x
FirstMatchSpacesFirst(t) == OrElse(MatchAdd(t, FALSE), MatchAdd(t, TRUE))

\* pattern_x is tried first, pattern_spaces second: the groups of the first
\* pattern that matches t, None if neither does
FirstMatch(t) == OrElse(MatchAdd(t, TRUE), MatchAdd(t, FALSE))

\* parse_add_input matching the text as typed, without parse_voice_numbers
parse_add_input_as_typed(text, created_at) ==
    LET m == FirstMatch(text)
    IN  IF m # None
        THEN ExerciseFromMatch(m[1], created_at)
        ELSE Raise("ValueError", FormatHint)

parse_add_input(text, created_at) ==
    LET m == FirstMatch(parse_voice_numbers(text))
    IN  IF m # None
        THEN ExerciseFromMatch(m[1], created_at)
        ELSE Raise("ValueError", FormatHint)

(***************************************************************************)
(* gym/parser.py: parse_exercise_input                                     *)
(***************************************************************************)
\* \s*reps?\s+ or \s*sets? from p: the position after the word with its
\* optional plural s
AfterWord(t, p, word) ==
    LET q == SkipSpaces(t, p)
    IN  IF ~LitAt(t, q, word, FALSE) THEN 0
        ELSE IF At(t, q + Len(word)) = "s" THEN q + Len(word) + 1
        ELSE q + Len(word)

\* pattern_full: ^(\d+(?:\.\d+)?)\s*(?:kg|кг)?\s+(\d+)\s*reps?\s+(\d+)\s*sets?$
MatchFull(t) ==
    LET we == WeightEnd(t, 1)
        rs == IF we = 0 THEN 0 ELSE AfterOptUnit(t, we, FALSE)
        re == IntEnd(t, rs)
        aw == IF re = 0 THEN 0 ELSE AfterWord(t, re, <<"r", "e", "p">>)
        ss == IF aw = 0 THEN 0 ELSE AfterSpaces(t, aw)
        se == IntEnd(t, ss)
        en == IF se = 0 THEN 0 ELSE AfterWord(t, se, <<"s", "e", "t">>)
    IN  IF en = Len(t) + 1
        THEN Some(<<SubSeq(t, 1, we - 1), SubSeq(t, rs, re - 1), SubSeq(t, ss, se - 1)>>)
        ELSE None

\* pattern_kg_x (unit 2, x TRUE), pattern_x (unit 0, x TRUE) and
\* pattern_spaces (unit 0, x FALSE) of parse_exercise_input
MatchTriple(t, unit, x) ==
    LET we == WeightEnd(t, 1)
        rs == IF we = 0 THEN 0
              ELSE IF unit = 2 THEN AfterUnit(t, we, FALSE)
              ELSE AfterSpaces(t, we)
        re == IntEnd(t, rs)
        ss == SetsStart(t, re, x, FALSE)
        se == IntEnd(t, ss)
    IN  IF se = Len(t) + 1
        THEN Some(<<SubSeq(t, 1, we - 1), SubSeq(t, rs, re - 1), SubSeq(t, ss, se - 1)>>)
        ELSE None

TripleOf(m) == <<ToFloat(m[1]), ToInt(m[2]), ToInt(m[3])>>

\* parse_exercise_input quoting the normalized text, not the input, in its error
parse_exercise_input_reports_text(input_str) ==
    LET text == parse_voice_numbers(Strip(PyLower(input_str)))
    IN  IF MatchFull(text) # None THEN Return(TripleOf(MatchFull(text)[1]))
        ELSE IF MatchTriple(text, 2, TRUE) # None
        THEN Return(TripleOf(MatchTriple(text, 2, TRUE)[1]))
        ELSE IF MatchTriple(text, 0, TRUE) # None
        THEN Return(TripleOf(MatchTriple(text, 0, TRUE)[1]))
        ELSE IF MatchTriple(text, 0, FALSE) # None
        THEN Return(TripleOf(MatchTriple(text, 0, FALSE)[1]))
        ELSE Raise("ValueError",
                   [id |-> "unrecognized", input |-> Some(text), hint |-> TRUE])

parse_exercise_input(input_str) ==
    LET text == parse_voice_numbers(Strip(PyLower(input_str)))
    IN  IF MatchFull(text) # None THEN Return(TripleOf(MatchFull(text)[1]))
        ELSE IF MatchTriple(text, 2, TRUE) # None
        THEN Return(TripleOf(MatchTriple(text, 2, TRUE)[1]))
        ELSE IF MatchTriple(text, 0, TRUE) # None
        THEN Return(TripleOf(MatchTriple(text, 0, TRUE)[1]))
        ELSE IF MatchTriple(text, 0, FALSE) # None
        THEN Return(TripleOf(MatchTriple(text, 0, FALSE)[1]))
        ELSE Raise("ValueError",
                   [id |-> "unrecognized", input |-> Some(input_str), hint |-> TRUE])

(***************************************************************************)
(* Inputs of the store and of the bot.                                     *)
(***************************************************************************)
\* "Жим лёжа"
ZhimLyozhaCap == <<"~ZH", "~i", "~m", " ", "~l", "~yo", "~zh", "~a">>

\* "жим лёжа"
ZhimLyozha == <<"~zh", "~i", "~m", " ", "~l", "~yo", "~zh", "~a">>

\* "жим лежа"
ZhimLezha == <<"~zh", "~i", "~m", " ", "~l", "~e", "~zh", "~a">>

\* "ЖИМ ЛЁЖА"
ZhimLyozhaUpper == <<"~ZH", "~I", "~M", " ", "~L", "~YO", "~ZH", "~A">>

\* " Bench "
BenchPadded == <<" ", "B", "e", "n", "c", "h", " ">>

\* "bench"
BenchLower == <<"b", "e", "n", "c", "h">>

\* the names of the records handed to add_exercise
\* "жим"
Zhim == <<"~zh", "~i", "~m">>

\* the names asked for
QueryNames == {ZhimLezha, ZhimLyozhaUpper, ZhimLyozhaCap, BenchLower}

AddWeights == {RatInt(60), RatInt(80)}

HistoryDays == {-1, 0, 1}

\* the id a caller may leave in the record handed to add_exercise
StaleId == Some(1)

\* "/add жим лежа 80 8x3", "/add жим абв", "/add жим 80 0x3", "/add"
CmdAddMessages ==
    { <<"/", "a", "d", "d", " ", "~zh", "~i", "~m", " ", "~l", "~e", "~zh", "~a",
        " ", "8", "0", " ", "8", "x", "3">>,
      <<"/", "a", "d", "d", " ", "~zh", "~i", "~m", " ", "~a", "~b", "~v">>,
      <<"/", "a", "d", "d", " ", "~zh", "~i", "~m", " ", "8", "0", " ", "0", "x", "3">>,
      <<"/", "a", "d", "d">> }

\* "жим лёжа 60кг 8 3 ок", "жим абв", "Жим лёжа 80 8 0", "/foo"
TextMessages ==
    { <<"~zh", "~i", "~m", " ", "~l", "~yo", "~zh", "~a", " ", "6", "0", "~k", "~g",
        " ", "8", " ", "3", " ", "~o", "~k">>,
      <<"~zh", "~i", "~m", " ", "~a", "~b", "~v">>,
      <<"~ZH", "~i", "~m", " ", "~l", "~yo", "~zh", "~a", " ", "8", "0", " ", "8", " ", "0">>,
      <<"/", "f", "o", "o">> }

(***************************************************************************)
(* The operations.  op records the last call: its kind, its argument and   *)
(* its outcome.                                                            *)
(***************************************************************************)
Op(kind, arg, res) == [kind |-> kind, arg |-> arg, res |-> res]

NoTable == Raise("OperationalError", [id |-> "no_such_table", input |-> None, hint |-> FALSE])

\* no connection was opened by the last call
NoConnection == [opened |-> FALSE, ended |-> "none", closed |-> TRUE]

\* _get_connection ending every call with a commit
_get_connection_always_commits(before, pending, raised) ==
    [store |-> pending,
     conn |-> [opened |-> TRUE, ended |-> "commit", closed |-> TRUE]]

\* with self._get_connection() as conn: the store was before, the statements
\* of the body left it pending; when the body or the commit raised the
\* connection is rolled back, otherwise committed, and closed in both cases
_get_connection(before, pending, raised) ==
    [store |-> IF raised THEN before ELSE pending,
     conn |-> [opened |-> TRUE, ended |-> IF raised THEN "rollback" ELSE "commit",
               closed |-> TRUE]]

\* conn.commit() raised
CommitFailed == Raise("OperationalError", [id |-> "commit_failed", input |-> None, hint |-> FALSE])

\* the rows and the AUTOINCREMENT counter, as one value
Store(rs, s) == [rows |-> rs, seq |-> s]

\* a call that reads: nothing is pending, the body raises without the table
ReadConnection == _get_connection(Store(rows, seq), Store(rows, seq), ~initialized).conn

\* the callers that may be inside a store call at the same time, each on a
\* connection of its own
Callers == {"a", "b"}

\* a caller outside any call
Idle == [pc |-> "idle", call |-> None, pending |-> None, res |-> None]

NoCalls == [c \in Callers |-> Idle]

Init ==
    /\ initialized = FALSE
    /\ rows = {}
    /\ seq = 0
    /\ now = 0
    /\ op = Op("new", None, None)
    /\ conn = NoConnection
    /\ inflight = NoCalls

\* room left under the bounds of the model for one more row
Room == Cardinality(rows) < MaxRows /\ seq < MaxSeq

\* init_db with DROP TABLE IF EXISTS before CREATE TABLE
InitDbRecreates ==
    /\ initialized' = TRUE
    /\ rows' = {}
    /\ seq' = 0
    /\ op' = Op("init_db", None, Return(None))
    /\ conn' = _get_connection(Store(rows, seq), Store({}, 0), FALSE).conn
    /\ UNCHANGED <<now, inflight>>

\* Database.init_db: CREATE TABLE / INDEX IF NOT EXISTS
InitDb ==
    /\ initialized' = TRUE
    /\ op' = Op("init_db", None, Return(None))
    /\ conn' = _get_connection(Store(rows, seq), Store(rows, seq), FALSE).conn
    /\ UNCHANGED <<rows, seq, now, inflight>>

\* Database.add_exercise; commit_fails: conn.commit() raises after the INSERT
AddExercise(e, commit_fails) ==
    /\ Room
    /\ LET body_raises == ~initialized \/ ~CheckConstraints(e)
           pending == IF body_raises THEN Store(rows, seq)
                      ELSE Store(rows \cup {InsertedRow(e, NextRowId)}, NextRowId)
           done == _get_connection(Store(rows, seq), pending, body_raises \/ commit_fails)
       IN  /\ commit_fails => ~body_raises
           /\ rows' = done.store.rows
           /\ seq' = done.store.seq
           /\ conn' = done.conn
           /\ op' = Op("add_exercise", e,
                       IF ~initialized THEN NoTable
                       ELSE IF ~CheckConstraints(e)
                       THEN Raise("IntegrityError",
                                  [id |-> "check_failed", input |-> None, hint |-> FALSE])
                       ELSE IF commit_fails THEN CommitFailed
                       ELSE Return(NextRowId))
    /\ UNCHANGED <<initialized, now, inflight>>

\* delete_exercise returning cursor.rowcount >= 0
DeleteExerciseRowcountFromZero(exercise_id, commit_fails) ==
    /\ LET pending == IF ~initialized THEN Store(rows, seq)
                      ELSE Store({r \in rows : r.id # exercise_id}, seq)
           raised == ~initialized \/ (commit_fails /\ pending # Store(rows, seq))
           done == _get_connection(Store(rows, seq), pending, raised)
       IN  /\ rows' = done.store.rows
           /\ conn' = done.conn
           /\ op' = Op("delete_exercise", exercise_id,
                       IF ~initialized THEN NoTable
                       ELSE IF raised THEN CommitFailed
                       ELSE Return(TRUE))
    /\ UNCHANGED <<initialized, seq, now, inflight>>

\* Database.delete_exercise; commit_fails: conn.commit() raises after the
\* DELETE has removed a row (with nothing written there is nothing to commit)
DeleteExercise(exercise_id, commit_fails) ==
    /\ LET pending == IF ~initialized THEN Store(rows, seq)
                      ELSE Store({r \in rows : r.id # exercise_id}, seq)
           raised == ~initialized \/ (commit_fails /\ pending # Store(rows, seq))
           done == _get_connection(Store(rows, seq), pending, raised)
       IN  /\ rows' = done.store.rows
           /\ conn' = done.conn
           /\ op' = Op("delete_exercise", exercise_id,
                       IF ~initialized THEN NoTable
                       ELSE IF raised THEN CommitFailed
                       ELSE Return(\E r \in rows : r.id = exercise_id))
    /\ UNCHANGED <<initialized, seq, now, inflight>>

\* Database.get_max_weight
GetMaxWeight(q) ==
    /\ op' = Op("get_max_weight", q,
                IF initialized THEN Return(get_max_weight(q)) ELSE NoTable)
    /\ conn' = ReadConnection
    /\ UNCHANGED <<initialized, rows, seq, now, inflight>>

\* Database.get_last_exercise
GetLastExercise(q) ==
    /\ LET first == LastRows(q)
       IN  IF ~initialized THEN op' = Op("get_last_exercise", q, NoTable)
           ELSE IF first = {} THEN op' = Op("get_last_exercise", q, Return(None))
           ELSE \E row \in first :
                    op' = Op("get_last_exercise", q, Return(Some(_row_to_exercise(row))))
    /\ conn' = ReadConnection
    /\ UNCHANGED <<initialized, rows, seq, now, inflight>>

\* get_exercise_history checking days inside the with block
GetExerciseHistoryCheckLate(q, days) ==
    /\ IF ~initialized
       THEN op' = Op("get_exercise_history", <<q, days>>, NoTable)
       ELSE IF days <= 0
       THEN op' = Op("get_exercise_history", <<q, days>>,
                     Raise("ValueError",
                           [id |-> "days_not_positive", input |-> None, hint |-> FALSE]))
       ELSE \E s \in SortedByCreatedAt(HistoryMatches(q, days)) :
                op' = Op("get_exercise_history", <<q, days>>, Return(ToExercises(s)))
    /\ conn' = _get_connection(Store(rows, seq), Store(rows, seq),
                               ~initialized \/ days <= 0).conn
    /\ UNCHANGED <<initialized, rows, seq, now, inflight>>

\* Database.get_exercise_history
GetExerciseHistory(q, days) ==
    /\ IF days <= 0
       THEN /\ op' = Op("get_exercise_history", <<q, days>>,
                        Raise("ValueError",
                              [id |-> "days_not_positive", input |-> None, hint |-> FALSE]))
            /\ conn' = NoConnection
       ELSE IF ~initialized
       THEN /\ op' = Op("get_exercise_history", <<q, days>>, NoTable)
            /\ conn' = ReadConnection
       ELSE /\ \E s \in SortedByCreatedAt(HistoryMatches(q, days)) :
                   op' = Op("get_exercise_history", <<q, days>>, Return(ToExercises(s)))
            /\ conn' = ReadConnection
    /\ UNCHANGED <<initialized, rows, seq, now, inflight>>

\* Database.get_today_exercises
GetTodayExercises ==
    /\ IF ~initialized
       THEN op' = Op("get_today_exercises", None, NoTable)
       ELSE \E s \in SortedByCreatedAt(TodayRows) :
                op' = Op("get_today_exercises", None, Return(ToExercises(s)))
    /\ conn' = ReadConnection
    /\ UNCHANGED <<initialized, rows, seq, now, inflight>>

\* Database.get_all_exercise_names: the distinct names (their order is not modelled)
GetAllExerciseNames ==
    /\ op' = Op("get_all_exercise_names", None,
                IF initialized THEN Return({r.name : r \in rows}) ELSE NoTable)
    /\ conn' = ReadConnection
    /\ UNCHANGED <<initialized, rows, seq, now, inflight>>

\* the rest of the try block once parse_add_input has returned or raised:
\* on ValueError the handler answers and the store is not opened; otherwise
\* get_db() opens and initializes the store and add_exercise inserts the record
AnswerParsed(kind, message, parsed, failed) ==
    IF parsed.tag = "raise"
    THEN /\ op' = Op(kind, message, [tag |-> failed, error |-> parsed.msg])
         /\ conn' = NoConnection
         /\ UNCHANGED <<initialized, rows, seq, inflight>>
    ELSE /\ Room
         /\ initialized' = TRUE
         /\ conn' = _get_connection(Store(rows, seq), Store(rows, seq), FALSE).conn
         /\ rows' = rows \cup {InsertedRow(parsed.val, NextRowId)}
         /\ seq' = NextRowId
         /\ op' = Op(kind, message,
                     [tag |-> "added", id |-> NextRowId, exercise |-> parsed.val])

\* a handler that on ValueError stores a best-effort record of the text
TryAddBestEffort(kind, message, text, failed) ==
    LET parsed == parse_add_input(text, now)
        e == IF parsed.tag = "return" THEN parsed.val
             ELSE ExerciseFields(None, text, RatInt(0), 1, 1, None, now)
    IN  /\ Room
        /\ initialized' = TRUE
        /\ conn' = _get_connection(Store(rows, seq), Store(rows, seq), FALSE).conn
        /\ rows' = rows \cup {InsertedRow(e, NextRowId)}
        /\ seq' = NextRowId
        /\ op' = Op(kind, message,
                    IF parsed.tag = "return"
                    THEN [tag |-> "added", id |-> NextRowId, exercise |-> e]
                    ELSE [tag |-> failed, error |-> parsed.msg])

\* try: parse_add_input(text); get_db(); add_exercise(...) except ValueError,
\* shared by cmd_add and handle_text_message; failed is the answer on ValueError
TryAdd(kind, message, text, failed) ==
    AnswerParsed(kind, message, parse_add_input(text, now), failed)

\* bot/handlers.py cmd_add
CmdAdd(message) ==
    LET text == Strip(SubSeq(message, 5, Len(message)))
    IN  /\ IF message = <<>>
           THEN /\ op' = Op("cmd_add", message, [tag |-> "empty_message"])
                /\ conn' = NoConnection
                /\ UNCHANGED <<initialized, rows, seq, inflight>>
           ELSE IF text = <<>>
           THEN /\ op' = Op("cmd_add", message, [tag |-> "usage"])
                /\ conn' = NoConnection
                /\ UNCHANGED <<initialized, rows, seq, inflight>>
           ELSE TryAdd("cmd_add", message, text, "error")
        /\ UNCHANGED <<now, inflight>>

\* bot/handlers.py handle_text_message
HandleTextMessage(message) ==
    LET text == Strip(message)
    IN  /\ IF message = <<>>
           THEN /\ op' = Op("handle_text_message", message, [tag |-> "ignored"])
                /\ conn' = NoConnection
                /\ UNCHANGED <<initialized, rows, seq, inflight>>
           ELSE IF LitAt(text, 1, <<"/">>, FALSE)
           THEN /\ op' = Op("handle_text_message", message, [tag |-> "unknown_command"])
                /\ conn' = NoConnection
                /\ UNCHANGED <<initialized, rows, seq, inflight>>
           ELSE TryAdd("handle_text_message", message, text, "not_recognized")
        /\ UNCHANGED <<now, inflight>>

\* the clock advances
Tick ==
    /\ now < MaxNow
    /\ now' = now + 1
    /\ op' = Op("tick", None, None)
    /\ conn' = NoConnection
    /\ UNCHANGED <<initialized, rows, seq, inflight>>

\* the records a caller builds for add_exercise at time t; the last two had
\* reps set to 0 and created_at set to None after construction (the dataclass
\* is not frozen)
AddInputsAt ==
    [t \in 0..MaxNow |->
        {Exercise(None, ZhimLyozhaCap, w, 8, 3, None, c).val :
            w \in AddWeights, c \in 0..t}
        \cup {Exercise(None, BenchPadded, RatInt(60), 8, 3, None, t).val}
        \cup {Exercise(StaleId, BenchPadded, RatInt(60), 8, 3, None, t).val}
        \cup {[Exercise(None, BenchPadded, RatInt(60), 8, 3, None, t).val
                  EXCEPT !.reps = 0],
              [Exercise(None, BenchPadded, RatInt(60), 8, 3, None, t).val
                  EXCEPT !.created_at = NullTime]}]

AddInputs == AddInputsAt[now]

Next ==
    \/ InitDb
    \/ \E e \in AddInputs, commit_fails \in BOOLEAN : AddExercise(e, commit_fails)
    \/ \E id \in 1..MaxSeq, commit_fails \in BOOLEAN : DeleteExercise(id, commit_fails)
    \/ \E q \in QueryNames : GetMaxWeight(q)
    \/ \E q \in QueryNames : GetLastExercise(q)
    \/ \E q \in QueryNames, days \in HistoryDays : GetExerciseHistory(q, days)
    \/ GetTodayExercises
    \/ GetAllExerciseNames
    \/ Tick

Spec == Init /\ [][Next]_vars

(***************************************************************************)
(* The bot: its two add handlers over the store.                           *)
(***************************************************************************)
NextBot ==
    \/ \E m \in CmdAddMessages : CmdAdd(m)
    \/ \E m \in TextMessages : HandleTextMessage(m)
    \/ Tick

SpecBot == Init /\ [][NextBot]_vars

(***************************************************************************)
(* Concurrent callers: add_exercise and delete_exercise run on one         *)
(* connection per call, statement by statement.  The first INSERT or       *)
(* DELETE of a connection begins its transaction and takes the write lock  *)
(* of the database file, which one connection holds at a time; the commit  *)
(* publishes what the transaction wrote and releases the lock.             *)
(***************************************************************************)

\* sqlite3.connect(...): the connection waited for the write lock in vain
Locked == Raise("OperationalError", [id |-> "database_is_locked", input |-> None, hint |-> FALSE])

\* the records concurrent callers add: a valid one, one carrying a stale id,
\* one with reps set to 0 after construction
ConcAddInputs ==
    {Exercise(None, ZhimLyozhaCap, RatInt(60), 8, 3, None, 0).val,
     Exercise(StaleId, BenchPadded, RatInt(60), 8, 3, None, 0).val,
     [Exercise(None, BenchPadded, RatInt(60), 8, 3, None, 0).val EXCEPT !.reps = 0]}

\* the calls a caller makes
ConcCalls ==
    {[kind |-> "add_exercise", arg |-> e] : e \in ConcAddInputs}
    \cup {[kind |-> "delete_exercise", arg |-> id] : id \in 1..MaxSeq}

\* connections writing with no lock between them
CanWriteUnlocked(c) == TRUE

\* no other connection holds the write lock
CanWrite(c) == \A o \in Callers \ {c} : inflight[o].pc # "written"

\* the call ends: its connection is closed and the caller has its result
Finish(c, res) == [inflight EXCEPT ![c] = [pc |-> "idle", call |-> inflight[c].call,
                                          pending |-> None, res |-> res]]

\* with self._get_connection() as conn: the connection is opened
Begin(c, call) ==
    /\ inflight[c].pc = "idle"
    /\ inflight' = [inflight EXCEPT ![c] = [pc |-> "open", call |-> call,
                                           pending |-> None, res |-> None]]
    /\ UNCHANGED <<initialized, rows, seq, now, op, conn>>

\* conn.execute(INSERT ...) / conn.execute(DELETE ...) with the lock free:
\* the statement raises (no table, a CHECK or NOT NULL constraint) and the
\* connection is rolled back, or it writes into the transaction
Write(c) ==
    /\ inflight[c].pc = "open"
    /\ CanWrite(c)
    /\ LET call == inflight[c].call
           adds == call.kind = "add_exercise"
       IN  /\ adds => Room
           /\ inflight' =
                 IF ~initialized THEN Finish(c, NoTable)
                 ELSE IF adds /\ ~CheckConstraints(call.arg)
                 THEN Finish(c, Raise("IntegrityError",
                                      [id |-> "check_failed", input |-> None, hint |-> FALSE]))
                 ELSE [inflight EXCEPT ![c].pc = "written",
                                       ![c].pending =
                                           IF adds
                                           THEN Store(rows \cup {InsertedRow(call.arg, NextRowId)},
                                                      NextRowId)
                                           ELSE Store({r \in rows : r.id # call.arg}, seq),
                                       ![c].res =
                                           IF adds THEN Return(NextRowId)
                                           ELSE Return(\E r \in rows : r.id = call.arg)]
    /\ UNCHANGED <<initialized, rows, seq, now, op, conn>>

\* the statement with the lock held by another connection until the timeout:
\* it raises, and the connection is rolled back
Busy(c) ==
    /\ inflight[c].pc = "open"
    /\ initialized
    /\ ~CanWrite(c)
    /\ inflight' = Finish(c, Locked)
    /\ UNCHANGED <<initialized, rows, seq, now, op, conn>>

\* conn.commit(), or conn.rollback() when the commit raised; conn.close()
Commit(c, commit_fails) ==
    /\ inflight[c].pc = "written"
    /\ LET done == _get_connection(Store(rows, seq), inflight[c].pending, commit_fails)
       IN  /\ rows' = done.store.rows
           /\ seq' = done.store.seq
           /\ inflight' = Finish(c, IF commit_fails THEN CommitFailed ELSE inflight[c].res)
    /\ UNCHANGED <<initialized, now, op, conn>>

NextConc ==
    \/ InitDb
    \/ \E c \in Callers, call \in ConcCalls : Begin(c, call)
    \/ \E c \in Callers : Write(c)
    \/ \E c \in Callers : Busy(c)
    \/ \E c \in Callers, commit_fails \in BOOLEAN : Commit(c, commit_fails)

SpecConc == Init /\ [][NextConc]_vars

(***************************************************************************)
(* The front ends (gym/cli.py, bot/handlers.py): every command obtains its *)
(* Database from get_db(), which runs init_db, and then makes its one      *)
(* store call.  The command under way and its argument are carried by the  *)
(* outcome of get_db.                                                      *)
(***************************************************************************)
\* the commands that end in add_exercise with a record they parsed
AddHandlers == {"bot.cmd_add", "bot.handle_text_message", "bot.handle_voice_message.add"}

TodayHandlers == {"cli.today", "bot.cmd_today", "bot.handle_voice_message.today"}

MaxHandlers == {"cli.max_weight", "bot.cmd_max", "bot.handle_voice_message.max"}

LastHandlers == {"cli.last", "bot.cmd_last", "bot.handle_voice_message.last"}

ProgressHandlers == {"cli.progress"}

\* days=90 of the progress command
ProgressDays == 90

\* the names the commands ask for
FrontNames == {ZhimLyozhaCap, BenchLower}

\* the records the bot's parser built at time t
FrontExercisesAt ==
    [t \in 0..MaxNow |-> {Exercise(None, ZhimLyozhaCap, w, 8, 3, None, t).val : w \in AddWeights}]

\* "80 8x3", "80 0x3", "80 8x0", "80.5kg 8reps 3sets", "80 8"
CliParams ==
    { <<"8", "0", " ", "8", "x", "3">>,
      <<"8", "0", " ", "0", "x", "3">>,
      <<"8", "0", " ", "8", "x", "0">>,
      <<"8", "0", ".", "5", "k", "g", " ", "8", "r", "e", "p", "s", " ", "3", "s", "e", "t", "s">>,
      <<"8", "0", " ", "8">> }

\* gym add NAME PARAMS [--note NOTE]: "жим" or " " for the name
CliAddArgs ==
    {[name |-> n, note |-> None, params |-> p] : n \in {Zhim, <<" ">>}, p \in CliParams}

\* get_db() handing out the Database without init_db
GetDbWithoutInit(command) ==
    /\ op' = Op("get_db", command, Return(None))
    /\ conn' = NoConnection
    /\ UNCHANGED <<initialized, rows, seq, now, inflight>>

\* get_db(): db = Database(path); db.init_db(); return db
GetDb(command) ==
    /\ initialized' = TRUE
    /\ op' = Op("get_db", command, Return(None))
    /\ conn' = _get_connection(Store(rows, seq), Store(rows, seq), FALSE).conn
    /\ UNCHANGED <<rows, seq, now, inflight>>

\* the command under way has its Database and is one of hs
After(hs) == op.kind = "get_db" /\ op.arg.handler \in hs

FrontAdd ==
    /\ After(AddHandlers)
    /\ \E commit_fails \in BOOLEAN : AddExercise(op.arg.arg, commit_fails)

FrontToday == After(TodayHandlers) /\ GetTodayExercises

FrontMax == After(MaxHandlers) /\ GetMaxWeight(op.arg.arg)

FrontLast == After(LastHandlers) /\ GetLastExercise(op.arg.arg)

FrontProgress == After(ProgressHandlers) /\ GetExerciseHistory(op.arg.arg, ProgressDays)

\* db.add_exercise(exercise) of cli.add and the message that follows: a
\* failed save ends the command with exit status 1
CliSave(a, parsed, exercise, commit_fails) ==
    LET failed == commit_fails \/ ~CheckConstraints(exercise)
        done == _get_connection(Store(rows, seq),
                                Store(rows \cup {InsertedRow(exercise, NextRowId)}, NextRowId),
                                failed)
    IN  /\ rows' = done.store.rows
        /\ seq' = done.store.seq
        /\ conn' = done.conn
        /\ op' = Op("cli_add", a,
                    [tag |-> IF failed THEN "save_error" ELSE "added", parsed |-> parsed])

\* exercise = Exercise(...) of cli.add, outside both try blocks: its
\* ValueError is not caught and add_exercise is not reached
CliConstruct(a, parsed, exercise, commit_fails) ==
    IF exercise.tag = "raise"
    THEN /\ ~commit_fails
         /\ op' = Op("cli_add", a, [tag |-> "raised", parsed |-> parsed])
         /\ UNCHANGED <<rows, seq, conn>>
    ELSE CliSave(a, parsed, exercise.val, commit_fails)

\* the add command handing the parsed values to add_exercise unconstructed
CliAddParsedUnchecked(a, parsed, commit_fails) ==
    IF parsed.tag = "raise"
    THEN /\ ~commit_fails
         /\ op' = Op("cli_add", a, [tag |-> "parse_error", parsed |-> parsed])
         /\ UNCHANGED <<rows, seq, conn>>
    ELSE CliSave(a, parsed,
                 ExerciseFields(None, a.name, parsed.val[1], parsed.val[2], parsed.val[3],
                                a.note, now),
                 commit_fails)

\* try: weight, reps, sets = parse_exercise_input(params_str): a parse error
\* ends the command with exit status 1
CliAddParsed(a, parsed, commit_fails) ==
    IF parsed.tag = "raise"
    THEN /\ ~commit_fails
         /\ op' = Op("cli_add", a, [tag |-> "parse_error", parsed |-> parsed])
         /\ UNCHANGED <<rows, seq, conn>>
    ELSE CliConstruct(a, parsed,
                      Exercise(None, a.name, parsed.val[1], parsed.val[2], parsed.val[3],
                               a.note, now),
                      commit_fails)

\* cli.add after get_db(): parse_exercise_input, Exercise(...), add_exercise
CliAdd(commit_fails) ==
    /\ After({"cli.add"})
    /\ Room
    /\ CliAddParsed(op.arg.arg, parse_exercise_input(op.arg.arg.params), commit_fails)
    /\ UNCHANGED <<initialized, now, inflight>>

NextFront ==
    \/ \E h \in AddHandlers, e \in FrontExercisesAt[now] : GetDb([arg |-> e, handler |-> h])
    \/ \E h \in TodayHandlers : GetDb([arg |-> None, handler |-> h])
    \/ \E h \in MaxHandlers \cup LastHandlers \cup ProgressHandlers, q \in FrontNames :
           GetDb([arg |-> q, handler |-> h])
    \/ \E a \in CliAddArgs : GetDb([arg |-> a, handler |-> "cli.add"])
    \/ FrontAdd
    \/ FrontToday
    \/ FrontMax
    \/ FrontLast
    \/ FrontProgress
    \/ \E commit_fails \in BOOLEAN : CliAdd(commit_fails)
    \/ Tick

SpecFront == Init /\ [][NextFront]_vars

(***************************************************************************)
(* Record construction on its own: the fields are drawn from small sets    *)
(* and Exercise(...) is applied to them.                                   *)
(***************************************************************************)
MaxField == 2

\* "", " ", "\t ", "жим лёжа", " Bench "
FieldNames == {<<>>, <<" ">>, <<"\t", " ">>, ZhimLyozha, BenchPadded}

FieldWeights == {Rat(-1, 1), Rat(-1, 2), RatInt(0), Rat(1, 2), RatInt(80)}

FieldInts == -1..MaxField

FieldInputs ==
    {ExerciseFields(None, n, w, r, s, None, 0) :
        n \in FieldNames, w \in FieldWeights, r \in FieldInts, s \in FieldInts}

InitExercise ==
    /\ initialized = FALSE
    /\ rows = {}
    /\ seq = 0
    /\ now = 0
    /\ conn = NoConnection
    /\ inflight = NoCalls
    /\ \E f \in FieldInputs : op = Op("fields", f, None)

Construct ==
    /\ op.kind = "fields"
    /\ op' = Op("Exercise", op.arg,
                Exercise(op.arg.id, op.arg.name, op.arg.weight, op.arg.reps,
                         op.arg.sets, op.arg.note, op.arg.created_at))
    /\ UNCHANGED <<initialized, rows, seq, now, conn, inflight>>

\* reading the property total_volume of a constructed record
TotalVolume ==
    /\ op.kind = "Exercise"
    /\ op.res.tag = "return"
    /\ op' = Op("total_volume", op.res.val, total_volume(op.res.val))
    /\ UNCHANGED <<initialized, rows, seq, now, conn, inflight>>

NextExercise == Construct \/ TotalVolume

SpecExercise == InitExercise /\ [][NextExercise]_vars

\* some character of the name is not whitespace
NonBlank(name) == \E i \in 1..Len(name) : name[i] \notin Whitespace

\* C1: constructing an Exercise succeeds, giving the record of the fields
\* as they were passed, exactly when weight >= 0, reps >= 1, sets >= 1 and
\* the name is not blank; with reps < 1, sets < 1 or weight < 0 it raises
\* ValueError whatever the other fields are, and there is no record.
C1_Construction ==
    op.kind = "Exercise" =>
        LET f == op.arg
            valid == /\ f.weight.num >= 0
                     /\ f.reps >= 1
                     /\ f.sets >= 1
                     /\ NonBlank(f.name)
        IN  /\ valid => op.res = Return(f)
            /\ ~valid => op.res.tag = "raise" /\ op.res.exc = "ValueError"
            /\ (f.reps < 1 \/ f.sets < 1 \/ f.weight.num < 0) => op.res.tag = "raise"

\* a record with reps < 1 and every other field valid was refused
C1_Witness ==
    /\ op.kind = "Exercise"
    /\ op.arg.reps < 1
    /\ op.arg.sets >= 1
    /\ op.arg.weight.num >= 0
    /\ NonBlank(op.arg.name)
    /\ op.res.tag = "raise"

(***************************************************************************)
(* The store: name matching, maximum weight, history, add.                 *)
(***************************************************************************)
\* the Name Matching Key: lower case, the letter yo folded to ye
NameMatchingKey(name) == normalize_exercise_name(name)

KeyMatches(q) == {r \in rows : NameMatchingKey(r.name) = NameMatchingKey(q)}

\* C2: get_max_weight finds a record exactly when the Name Matching Key of a
\* stored name equals that of the name asked for, whatever the case and the
\* yo/ye spelling of either.
C2_NameMatching ==
    (op.kind = "get_max_weight" /\ op.res.tag = "return") =>
        (op.res.val # None <=> KeyMatches(op.arg) # {})

\* C3: with every record inside the window, get_exercise_history finds
\* records exactly when get_last_exercise does, and returns exactly the
\* records whose Name Matching Key equals that of the name asked for,
\* oldest first.
C3_HistorySameRule ==
    (/\ op.kind = "get_exercise_history"
     /\ op.res.tag = "return"
     /\ \A r \in rows : r.created_at >= now - op.arg[2] * DayTicks) =>
        LET q == op.arg[1]
            h == op.res.val
        IN  /\ (h # <<>>) <=> (LastRows(q) # {})
            /\ {h[i].id[1] : i \in 1..Len(h)} = Ids(KeyMatches(q))
            /\ Len(h) = Cardinality(KeyMatches(q))
            /\ \A i, j \in 1..Len(h) : i < j => h[i].created_at <= h[j].created_at

\* C4: get_max_weight returns the weight and created_at of the record of
\* greatest weight among those matching the name, the earliest of them on a
\* tie, and None when no record matches.
C4_MaxWeight ==
    (op.kind = "get_max_weight" /\ op.res.tag = "return") =>
        LET m == KeyMatches(op.arg)
        IN  IF m = {} THEN op.res.val = None
            ELSE /\ op.res.val # None
                 /\ \E r \in m :
                        /\ op.res.val[1] = <<r.weight, r.created_at>>
                        /\ \A o \in m : ~RatLess(r.weight, o.weight)
                        /\ \A o \in m : o.weight = r.weight => r.created_at <= o.created_at

\* the step is a completed add_exercise of record e that wrote row
AddedRow(e, row) ==
    /\ row \notin rows
    /\ rows' = rows \cup {row}
    /\ row.id = op'.res.val
    /\ row.id \notin Ids(rows)
    /\ row.weight = e.weight
    /\ row.reps = e.reps
    /\ row.sets = e.sets
    /\ row.note = e.note
    /\ row.created_at = e.created_at

\* C5 as stated: add_exercise appends exactly one row holding the fields of
\* the record, under an id that no row of the store has, whatever id the
\* record carries and whether or not an equal record is already stored.
C5_AddHoldsFields ==
    [][(op'.kind = "add_exercise" /\ op'.res.tag = "return") =>
          \E row \in rows' : AddedRow(op'.arg, row) /\ row.name = op'.arg.name]_vars

\* C5 amended: the row holds the fields of the record, the name with its
\* surrounding whitespace trimmed.
C5_AddHoldsTrimmedFields ==
    [][(op'.kind = "add_exercise" /\ op'.res.tag = "return") =>
          \E row \in rows' : AddedRow(op'.arg, row) /\ row.name = Strip(op'.arg.name)]_vars

\* the record just added is stored twice, under two ids, and carried the id
\* of a row that is still there
C5_Witness ==
    /\ op.kind = "add_exercise"
    /\ op.res.tag = "return"
    /\ op.arg.id # None
    /\ \E r1, r2 \in rows :
          /\ r1.id = op.res.val
          /\ r2.id = op.arg.id[1]
          /\ r1.id # r2.id
          /\ [r1 EXCEPT !.id = 0] = [r2 EXCEPT !.id = 0]

(***************************************************************************)
(* The two parsers on their own: a text is drawn and parsed.               *)
(***************************************************************************)
\* "", "жим", "жим лежа", "жим 2"
ParseNames == {<<>>, Zhim, ZhimLezha, Zhim \o <<" ", "2">>}

\* "80", "80кг", "80.5", "восемьдесят"
ParseWeights ==
    { <<"8", "0">>, <<"8", "0", "~k", "~g">>, <<"8", "0", ".", "5">>,
      <<"~v", "~o", "~s", "~e", "~m", "~q", "~d", "~e", "~s", "~ya", "~t">> }

\* "x", " ", " х "
ParseSeps == {<<"x">>, <<" ">>, <<" ", "~h", " ">>}

ParseReps == {<<"8">>, <<"0">>}

ParseSets == {<<"3">>, <<"0">>}

\* "", " ок"
ParseNotes == {<<>>, <<" ", "~o", "~k">>}

\* "жим абв", "", "80kg 8reps 3sets", "80 kg 8 rep 3 set"
OtherTexts ==
    { Zhim \o <<" ", "~a", "~b", "~v">>,
      <<>>,
      <<"8", "0", "k", "g", " ", "8", "r", "e", "p", "s", " ", "3", "s", "e", "t", "s">>,
      <<"8", "0", " ", "k", "g", " ", "8", " ", "r", "e", "p", " ", "3", " ", "s", "e", "t">> }

\* "жим 80 8 3 5x5", "жим 80 8 3 100 0x5": texts that both patterns match
BothMatchTexts ==
    { <<"~zh", "~i", "~m", " ", "8", "0", " ", "8", " ", "3", " ", "5", "x", "5">>,
      <<"~zh", "~i", "~m", " ", "8", "0", " ", "8", " ", "3", " ", "1", "0", "0", " ",
        "0", "x", "5">> }

\* "присед 100кг 5 4 тяжело было", "присед 100 kg 5x4 два  раза "
NotedTexts ==
    { <<"~p", "~r", "~i", "~s", "~e", "~d", " ", "1", "0", "0", "~k", "~g", " ", "5",
        " ", "4", " ", "~t", "~ya", "~zh", "~e", "~l", "~o", " ", "~b", "~y", "~l",
        "~o">>,
      <<"~p", "~r", "~i", "~s", "~e", "~d", " ", "1", "0", "0", " ", "k", "g", " ", "5",
        "x", "4", " ", "~d", "~v", "~a", " ", " ", "~r", "~a", "~z", "~a", " ">> }

\* "становая восемьдесят 5x3", "жим восемьдесят восемь три",
\* "Жим Восемьдесят Восемь Три", "жим восемьдесят 8 три",
\* "жим восемьдесят кг восемь x три", "жим восемьдесят восемь 3"
SpokenTexts ==
    { <<"~s", "~t", "~a", "~n", "~o", "~v", "~a", "~ya", " ", "~v", "~o", "~s", "~e",
        "~m", "~q", "~d", "~e", "~s", "~ya", "~t", " ", "5", "x", "3">>,
      <<"~zh", "~i", "~m", " ", "~v", "~o", "~s", "~e", "~m", "~q", "~d", "~e", "~s",
        "~ya", "~t", " ", "~v", "~o", "~s", "~e", "~m", "~q", " ", "~t", "~r",
        "~i">>,
      <<"~ZH", "~i", "~m", " ", "~V", "~o", "~s", "~e", "~m", "~q", "~d", "~e", "~s",
        "~ya", "~t", " ", "~V", "~o", "~s", "~e", "~m", "~q", " ", "~T", "~r",
        "~i">>,
      <<"~zh", "~i", "~m", " ", "~v", "~o", "~s", "~e", "~m", "~q", "~d", "~e", "~s",
        "~ya", "~t", " ", "8", " ", "~t", "~r", "~i">>,
      <<"~zh", "~i", "~m", " ", "~v", "~o", "~s", "~e", "~m", "~q", "~d", "~e", "~s",
        "~ya", "~t", " ", "~k", "~g", " ", "~v", "~o", "~s", "~e", "~m", "~q", " ",
        "x", " ", "~t", "~r", "~i">>,
      <<"~zh", "~i", "~m", " ", "~v", "~o", "~s", "~e", "~m", "~q", "~d", "~e", "~s",
        "~ya", "~t", " ", "~v", "~o", "~s", "~e", "~m", "~q", " ", "3">> }

ParseTexts ==
    {(IF n = <<>> THEN <<>> ELSE n \o <<" ">>) \o w \o <<" ">> \o r \o sep \o s \o note :
        n \in ParseNames, w \in ParseWeights, r \in ParseReps, sep \in ParseSeps,
        s \in ParseSets, note \in ParseNotes}
    \cup OtherTexts \cup BothMatchTexts \cup NotedTexts \cup SpokenTexts

InitParse ==
    /\ initialized = FALSE
    /\ rows = {}
    /\ seq = 0
    /\ now = 0
    /\ conn = NoConnection
    /\ inflight = NoCalls
    /\ \E t \in ParseTexts : op = Op("text", t, None)

ParseAddInput ==
    /\ op.kind = "text"
    /\ op' = Op("parse_add_input", op.arg, parse_add_input(op.arg, now))
    /\ UNCHANGED <<initialized, rows, seq, now, conn, inflight>>

ParseExerciseInput ==
    /\ op.kind = "text"
    /\ op' = Op("parse_exercise_input", op.arg, parse_exercise_input(op.arg))
    /\ UNCHANGED <<initialized, rows, seq, now, conn, inflight>>

NextParse == ParseAddInput \/ ParseExerciseInput

SpecParse == InitParse /\ [][NextParse]_vars

C7_InvalidMatchFails ==
    op.kind = "parse_add_input" =>
        LET m == FirstMatch(parse_voice_numbers(op.arg))
        IN  /\ (m # None /\ (ToInt(m[1].reps) < 1 \/ ToInt(m[1].sets) < 1)) =>
                  op.res.tag = "raise"
            /\ op.res.tag = "return" =>
                  /\ m # None
                  /\ op.res.val.weight = ToFloat(m[1].weight)
                  /\ op.res.val.reps = ToInt(m[1].reps)
                  /\ op.res.val.sets = ToInt(m[1].sets)
                  /\ op.res.val.reps >= 1
                  /\ op.res.val.sets >= 1

\* "жим 80 0x3" matched the x-joined pattern with reps = 0 and was refused
C7_Witness ==
    /\ op.kind = "parse_add_input"
    /\ op.arg = Zhim \o <<" ", "8", "0", " ", "0", "x", "3">>
    /\ MatchAdd(op.arg, TRUE) # None
    /\ op.res.tag = "raise"
    /\ op.res.msg.id = "reps_below_one"

(***************************************************************************)
(* The bot's handlers.                                                     *)
(***************************************************************************)
\* the text a handler passes to parse_add_input for message m
HandlerText(kind, m) == IF kind = "cmd_add" THEN Strip(SubSeq(m, 5, Len(m))) ELSE Strip(m)

\* C8: when parse_add_input fails on the text of a message, cmd_add and
\* handle_text_message add nothing: the rows of the store, and its id
\* counter, are after the message what they were before it, and the answer
\* carries no record.
C8_FailedParseAddsNothing ==
    [][(/\ op'.kind \in {"cmd_add", "handle_text_message"}
        /\ parse_add_input(HandlerText(op'.kind, op'.arg), now).tag = "raise") =>
          /\ rows' = rows
          /\ seq' = seq
          /\ op'.res.tag # "added"]_vars

\* "/add жим абв" was answered with the error while the store holds rows
C8_Witness ==
    /\ op.kind = "cmd_add"
    /\ op.arg = <<"/", "a", "d", "d", " ">> \o Zhim \o <<" ", "~a", "~b", "~v">>
    /\ op.res.tag = "error"
    /\ op.res.error.id = "format"
    /\ rows # {}

(***************************************************************************)
(* The two notations of one exercise: a name and three numbers are drawn   *)
(* and parse_add_input is applied to "<name> <w> <r>x<s>" and to           *)
(* "<name> <w> <r> <s>".                                                   *)
(***************************************************************************)
\* "жим", "жим лежа", "Ёж", "жим 5x5", "жим 2", "жим 2кг", "жим два"
FormNames ==
    { Zhim, ZhimLezha, <<"~YO", "~zh">>,
      Zhim \o <<" ", "5", "x", "5">>,
      Zhim \o <<" ", "2">>,
      Zhim \o <<" ", "2", "~k", "~g">>,
      Zhim \o <<" ", "~d", "~v", "~a">> }

FormWeights == {<<"8", "0">>, <<"8", "0", ".", "5">>, <<"2">>}

FormReps == {<<"8">>, <<"1", "0">>, <<"1">>}

FormSets == {<<"3">>, <<"1">>}

FormInputs ==
    {[name |-> n, w |-> w, r |-> r, s |-> s] :
        n \in FormNames, w \in FormWeights, r \in FormReps, s \in FormSets}

XForm(f) == f.name \o <<" ">> \o f.w \o <<" ">> \o f.r \o <<"x">> \o f.s

SpaceForm(f) == f.name \o <<" ">> \o f.w \o <<" ">> \o f.r \o <<" ">> \o f.s

InitForms ==
    /\ initialized = FALSE
    /\ rows = {}
    /\ seq = 0
    /\ now = 0
    /\ conn = NoConnection
    /\ inflight = NoCalls
    /\ \E f \in FormInputs : op = Op("form", f, None)

ParseForms ==
    /\ op.kind = "form"
    /\ op' = Op("parse_forms", op.arg,
                <<parse_add_input(XForm(op.arg), now), parse_add_input(SpaceForm(op.arg), now)>>)
    /\ UNCHANGED <<initialized, rows, seq, now, conn, inflight>>

NextForms == ParseForms

SpecForms == InitForms /\ [][NextForms]_vars

\* the two results are records with the same name, weight, reps and sets
SameRecord(a, b) ==
    /\ a.tag = "return"
    /\ b.tag = "return"
    /\ a.val.name = b.val.name
    /\ a.val.weight = b.val.weight
    /\ a.val.reps = b.val.reps
    /\ a.val.sets = b.val.sets

\* C9 as stated: for every name, the number-last ones included, the two
\* notations give records with the same name, weight, reps and sets.
C9_FormatEquivalence ==
    op.kind = "parse_forms" => SameRecord(op.res[1], op.res[2])

\* token t is a number word, or a number with an optional fraction and an
\* optional кг/kg directly after it
IsNumberToken(t) ==
    \/ PyLower(t) \in all_number_words
    \/ /\ WeightEnd(t, 1) # 0
       /\ \/ WeightEnd(t, 1) = Len(t) + 1
          \/ UnitAt(t, WeightEnd(t, 1), TRUE) /\ WeightEnd(t, 1) + 2 = Len(t) + 1

NoNumberToken(name) == \A i \in 1..Len(Split(name)) : ~IsNumberToken(Split(name)[i])

\* C9 amended: for every name none of whose tokens is a number or a number
\* word, the two notations give records with the same name, weight, reps
\* and sets.
C9_FormatEquivalenceCleanName ==
    (op.kind = "parse_forms" /\ NoNumberToken(op.arg.name)) =>
        SameRecord(op.res[1], op.res[2])

\* "жим 5x5 80.5 10x3" and "жим 5x5 80.5 10 3" gave the same record
C9_Witness ==
    /\ op.kind = "parse_forms"
    /\ op.arg = [name |-> Zhim \o <<" ", "5", "x", "5">>, w |-> <<"8", "0", ".", "5">>,
                 r |-> <<"1", "0">>, s |-> <<"3">>]
    /\ SameRecord(op.res[1], op.res[2])
    /\ op.res[2].val.name = op.arg.name
    /\ op.res[2].val.weight = Rat(161, 2)

(***************************************************************************)
(* The numeral normalizer on its own.                                      *)
(***************************************************************************)
MaxSpelled == 300

MaxTokens == 3

WordsOf(table, v) == {w \in DOMAIN table : table[w] = v}

\* the canonical spellings of n, as token sequences: hundreds, tens, units
RECURSIVE Spellings(_)
Spellings(n) ==
    IF n < 20 THEN {<<u>> : u \in WordsOf(UNITS, n)}
    ELSE IF n < 100
    THEN IF n % 10 = 0 THEN {<<t>> : t \in WordsOf(TENS, n)}
         ELSE {<<t, u>> : t \in WordsOf(TENS, n - (n % 10)), u \in WordsOf(UNITS, n % 10)}
    ELSE IF n % 100 = 0 THEN {<<h>> : h \in WordsOf(HUNDREDS, n)}
    ELSE {<<h>> \o rest : h \in WordsOf(HUNDREDS, n - (n % 100)), rest \in Spellings(n % 100)}

\* the first letter in upper case
Capitalized(s) ==
    [i \in 1..Len(s) |->
        IF i = 1 /\ \E u \in DOMAIN CyrToLower : CyrToLower[u] = s[1]
        THEN CHOOSE u \in DOMAIN CyrToLower : CyrToLower[u] = s[1]
        ELSE s[i]]

\* "жим", "Жим", "сто", "Пять", "двадцать", "ДВА", "одна", "80"
MixedTokens ==
    { Zhim, <<"~ZH", "~i", "~m">>, <<"~s", "~t", "~o">>, <<"~P", "~ya", "~t", "~q">>,
      <<"~d", "~v", "~a", "~d", "~ts", "~a", "~t", "~q">>, <<"~D", "~V", "~A">>,
      <<"~o", "~d", "~n", "~a">>, <<"8", "0">> }

TokenSeqs == UNION {[1..k -> MixedTokens] : k \in 1..MaxTokens}

\* the canonical spellings of 0..MaxSpelled, as written and capitalized
SpelledInputs ==
    UNION {{[text |-> Join(sp), n |-> Some(n)] : sp \in Spellings(n)}
           \cup {[text |-> Capitalized(Join(sp)), n |-> Some(n)] : sp \in Spellings(n)} :
           n \in 0..MaxSpelled}

MaxSpaced == 2

\* whitespace between tokens: one space, two spaces, a tab
Spacings == {<<" ">>, <<" ", " ">>, <<"\t">>}

\* whitespace around the text: none or one space
Margins == {<<>>, <<" ">>}

\* tokens with sep between them
RECURSIVE JoinWith(_, _)
JoinWith(tokens, sep) ==
    IF tokens = <<>> THEN <<>>
    ELSE IF Len(tokens) = 1 THEN tokens[1]
    ELSE tokens[1] \o sep \o JoinWith(Tail(tokens), sep)

\* texts of up to MaxSpaced tokens under every spacing, and the blank texts
SpacedTexts ==
    {lead \o JoinWith(ts, sep) \o trail :
        ts \in UNION {[1..k -> MixedTokens] : k \in 1..MaxSpaced},
        sep \in Spacings, lead \in Margins, trail \in Margins}
    \cup {<<>>, <<" ">>}

NormInputs ==
    SpelledInputs
    \cup {[text |-> Join(ts), n |-> None] : ts \in TokenSeqs}
    \cup {[text |-> t, n |-> None] : t \in SpacedTexts}

InitNorm ==
    /\ initialized = FALSE
    /\ rows = {}
    /\ seq = 0
    /\ now = 0
    /\ conn = NoConnection
    /\ inflight = NoCalls
    /\ \E i \in NormInputs : op = Op("voice", i, None)

ParseVoiceNumbers ==
    /\ op.kind = "voice"
    /\ op' = Op("parse_voice_numbers", op.arg, parse_voice_numbers(op.arg.text))
    /\ UNCHANGED <<initialized, rows, seq, now, conn, inflight>>

\* bot/voice.py normalizes the recognized text and parse_add_input normalizes
\* what it is given again: the second pass over the result of the first
NormalizeAgain ==
    /\ op.kind = "parse_voice_numbers"
    /\ op' = Op("parse_voice_numbers_again", op.arg,
                [first |-> op.res, second |-> parse_voice_numbers(op.res)])
    /\ UNCHANGED <<initialized, rows, seq, now, conn, inflight>>

NextNorm == ParseVoiceNumbers \/ NormalizeAgain

SpecNorm == InitNorm /\ [][NextNorm]_vars

IsNumberWord(t) == PyLower(t) \in all_number_words

WordValue(t) ==
    IF PyLower(t) \in DOMAIN HUNDREDS THEN HUNDREDS[PyLower(t)]
    ELSE IF PyLower(t) \in DOMAIN TENS THEN TENS[PyLower(t)]
    ELSE UNITS[PyLower(t)]

RECURSIVE SumValues(_, _, _)
SumValues(toks, i, j) ==
    IF i > j THEN 0 ELSE WordValue(toks[i]) + SumValues(toks, i + 1, j)

\* the last token of the maximal run of number words that starts at i
RunEnd(toks, i) == Max({j \in i..Len(toks) : \A k \in i..j : IsNumberWord(toks[k])})

\* what stands in the output for token i: the token itself, the sum of the
\* run that starts at i, or nothing inside a run
RECURSIVE RunsReplaced(_, _)
RunsReplaced(toks, i) ==
    IF i > Len(toks) THEN <<>>
    ELSE (IF ~IsNumberWord(toks[i]) THEN <<toks[i]>>
          ELSE IF i = 1 \/ ~IsNumberWord(toks[i - 1])
          THEN <<ToDecimal(SumValues(toks, i, RunEnd(toks, i)))>>
          ELSE <<>>)
         \o RunsReplaced(toks, i + 1)

\* C10: parse_voice_numbers replaces every maximal run of number words by
\* one token, the decimal string of the sum of the values of its words,
\* whatever their order and case, and keeps the other tokens; a canonical
\* spelling of n in 0..300 becomes the decimal string of n.
C10_RunsBecomeSums ==
    op.kind = "parse_voice_numbers" =>
        /\ op.res = Join(RunsReplaced(Split(op.arg.text), 1))
        /\ op.arg.n # None =>
              /\ op.res = ToDecimal(op.arg.n[1])
              /\ ToInt(op.res) = op.arg.n[1]
              /\ \A i \in 1..Len(op.res) : op.res[i] \in Digits

\* "Сто двадцать пять" became "125"
C10_Witness ==
    /\ op.kind = "parse_voice_numbers"
    /\ op.arg.n = Some(125)
    /\ op.arg.text[1] = "~S"
    /\ op.res = <<"1", "2", "5">>

(***************************************************************************)
(* The numeral normalizer: idempotence and the tokens it leaves alone.     *)
(***************************************************************************)
AllDigits(t) == t # <<>> /\ \A i \in 1..Len(t) : t[i] \in Digits

DigitTokensOnly(text) == \A i \in 1..Len(Split(text)) : AllDigits(Split(text)[i])

\* C11 as stated: normalizing twice equals normalizing once, and text whose
\* tokens are already digits is returned unchanged.
C11_Idempotent ==
    op.kind = "parse_voice_numbers_again" =>
        /\ op.res.second = op.res.first
        /\ DigitTokensOnly(op.arg.text) => op.res.first = op.arg.text

\* C11 amended: normalizing twice equals normalizing once; text whose tokens
\* are already digits comes back as the same tokens joined by single spaces,
\* so it is unchanged exactly when it was already written that way.
C11_IdempotentUpToSpacing ==
    op.kind = "parse_voice_numbers_again" =>
        /\ op.res.second = op.res.first
        /\ DigitTokensOnly(op.arg.text) =>
              /\ op.res.first = Join(Split(op.arg.text))
              /\ op.res.first = op.arg.text <=> op.arg.text = Join(Split(op.arg.text))

\* a text with number words in two runs was normalized twice, the second
\* pass changing nothing
C11_Witness ==
    /\ op.kind = "parse_voice_numbers_again"
    /\ \E i, j \in 1..Len(Split(op.arg.text)) :
          /\ i + 1 < j
          /\ IsNumberWord(Split(op.arg.text)[i])
          /\ ~IsNumberWord(Split(op.arg.text)[i + 1])
          /\ IsNumberWord(Split(op.arg.text)[j])
    /\ op.res.first # op.arg.text
    /\ op.res.second = op.res.first

\* the number words among toks[1..i-1]
NumberWordsBefore(toks, i) == Cardinality({k \in 1..(i - 1) : IsNumberWord(toks[k])})

\* the runs of number words that start among toks[1..i-1]
RunsBefore(toks, i) ==
    Cardinality({k \in 1..(i - 1) :
                    IsNumberWord(toks[k]) /\ (k = 1 \/ ~IsNumberWord(toks[k - 1]))})

\* where input token i, or the run that starts at i, stands in the output
OutPos(toks, i) == i - NumberWordsBefore(toks, i) + RunsBefore(toks, i)

\* every token that is not a number word stands in the output as written, in
\* order, and each run stands as one token of digits at its own position
TokensKept(toks, out) ==
    /\ Len(out) = OutPos(toks, Len(toks) + 1) - 1
    /\ \A i \in 1..Len(toks) :
          IF ~IsNumberWord(toks[i]) THEN out[OutPos(toks, i)] = toks[i]
          ELSE (i = 1 \/ ~IsNumberWord(toks[i - 1])) => AllDigits(out[OutPos(toks, i)])

NoNumberWords(text) == \A i \in 1..Len(Split(text)) : ~IsNumberWord(Split(text)[i])

\* C12 as stated: the tokens that are not number words are kept as written
\* and in order, each run is replaced at its own position, and text with no
\* number words passes through unchanged.
C12_OtherTokensUntouched ==
    op.kind = "parse_voice_numbers" =>
        /\ TokensKept(Split(op.arg.text), Split(op.res))
        /\ NoNumberWords(op.arg.text) => op.res = op.arg.text

\* C12 amended: as stated, except that the output is the tokens joined by
\* single spaces: text with no number words comes back with every stretch of
\* whitespace between tokens replaced by one space and none around it.
C12_OtherTokensUntouchedUpToSpacing ==
    op.kind = "parse_voice_numbers" =>
        /\ TokensKept(Split(op.arg.text), Split(op.res))
        /\ op.res = Join(Split(op.res))
        /\ NoNumberWords(op.arg.text) => op.res = Join(Split(op.arg.text))

\* a capitalized token that is not a number word, after a run, was kept
C12_Witness ==
    /\ op.kind = "parse_voice_numbers"
    /\ Len(Split(op.arg.text)) = 3
    /\ IsNumberWord(Split(op.arg.text)[1])
    /\ IsNumberWord(Split(op.arg.text)[2])
    /\ Split(op.arg.text)[3] = <<"~ZH", "~i", "~m">>
    /\ Split(op.res)[2] = <<"~ZH", "~i", "~m">>

(***************************************************************************)
(* The derived load of a record.                                           *)
(***************************************************************************)
\* the columns of the table exercises
Columns == {"id", "name", "weight", "reps", "sets", "note", "created_at"}

\* C13: for weight >= 0, reps >= 1 and sets >= 1 (and a name that is not
\* blank) construction succeeds, and total_volume of the record is
\* weight * reps * sets; it is computed from the fields, being neither a
\* field of the record nor a column of the row stored for it.
C13_TotalVolume ==
    /\ (op.kind = "Exercise" /\ op.arg.weight.num >= 0 /\ op.arg.reps >= 1
           /\ op.arg.sets >= 1 /\ NonBlank(op.arg.name)) => op.res.tag = "return"
    /\ op.kind = "total_volume" =>
          /\ op.res.num * op.arg.weight.den
                = op.arg.weight.num * op.arg.reps * op.arg.sets * op.res.den
          /\ op.res.den > 0
          /\ Gcd(Abs(op.res.num), op.res.den) = 1
          /\ DOMAIN op.arg = Columns
          /\ DOMAIN InsertedRow(op.arg, 1) = Columns

\* the load of 0.5 kg, 2 reps, 2 sets was read as 2
C13_Witness ==
    /\ op.kind = "total_volume"
    /\ op.arg.weight = Rat(1, 2)
    /\ op.arg.reps = 2
    /\ op.arg.sets = 2
    /\ op.res = RatInt(2)

(***************************************************************************)
(* The store: the queries, delete, and what the rows may hold.             *)
(***************************************************************************)
\* midnight of the current day
Midnight == DayTicks * (now \div DayTicks)

C16_NonPositiveDaysFailFirst ==
    [][(op'.kind = "get_exercise_history" /\ op'.arg[2] <= 0) =>
          /\ op'.res.tag = "raise"
          /\ op'.res.exc = "ValueError"
          /\ ~conn'.opened
          /\ rows' = rows
          /\ seq' = seq
          /\ initialized' = initialized]_vars

\* a history of -1 days was asked of a store without its table: the answer
\* is the ValueError of the check, not the error of the query
C16_Witness ==
    /\ op.kind = "get_exercise_history"
    /\ op.arg[2] = -1
    /\ ~initialized
    /\ op.res.tag = "raise"
    /\ op.res.exc = "ValueError"
    /\ ~conn.opened

\* C17: on an initialized store delete_exercise that completes has removed
\* exactly the row of the given id and returns True when there was one; for
\* an id that no row has it returns False, raises nothing and leaves every
\* row as it was.
C17_Delete ==
    [][(op'.kind = "delete_exercise" /\ initialized) =>
          /\ op'.res.tag = "return" =>
                /\ rows' = {r \in rows : r.id # op'.arg}
                /\ op'.res.val = (op'.arg \in Ids(rows))
          /\ op'.arg \notin Ids(rows) =>
                /\ op'.res = Return(FALSE)
                /\ rows' = rows]_vars

\* the row of the id was removed while another row stayed
C17_Witness ==
    /\ op.kind = "delete_exercise"
    /\ op.res = Return(TRUE)
    /\ op.arg \notin Ids(rows)
    /\ rows # {}

StoreCalls ==
    {"init_db", "add_exercise", "delete_exercise", "get_max_weight", "get_last_exercise",
     "get_exercise_history", "get_today_exercises", "get_all_exercise_names"}

\* C18: a store call that raises leaves the rows and the id counter as they
\* were, its connection, if one was opened, rolled back and closed; a call
\* that completes is committed and closed, an add having put its one row and
\* a delete having removed the rows of its id.
C18_Atomic ==
    [][op'.kind \in StoreCalls =>
          IF op'.res.tag = "raise"
          THEN /\ rows' = rows
               /\ seq' = seq
               /\ conn'.opened => (conn'.ended = "rollback" /\ conn'.closed)
          ELSE /\ conn' = [opened |-> TRUE, ended |-> "commit", closed |-> TRUE]
               /\ op'.kind = "add_exercise" =>
                     \E row \in rows' : row \notin rows /\ rows' = rows \cup {row}
               /\ op'.kind = "delete_exercise" =>
                     rows' = {r \in rows : r.id # op'.arg}
               /\ op'.kind \notin {"add_exercise", "delete_exercise"} => rows' = rows]_vars

\* the commit of an add failed and the store holds what it held
C18_Witness ==
    /\ op.kind = "add_exercise"
    /\ op.res = CommitFailed
    /\ conn = [opened |-> TRUE, ended |-> "rollback", closed |-> TRUE]
    /\ rows # {}
    /\ seq = Max(Ids(rows))

\* what the table requires of a row
RowValid(r) ==
    /\ r.weight.num >= 0
    /\ r.reps >= 1
    /\ r.sets >= 1
    /\ r.created_at \in 0..MaxNow
    /\ DOMAIN r.name = 1..Len(r.name)

\* what it requires of a record to be added
RecordValid(e) == e.weight.num >= 0 /\ e.reps >= 1 /\ e.sets >= 1 /\ e.created_at >= 0

\* C19: after every call each stored row has weight >= 0, reps >= 1,
\* sets >= 1, a created_at and a name; an add of a record that breaks this
\* raises and stores nothing.
C19_RowsValid ==
    [][/\ \A r \in rows' : RowValid(r)
       /\ (op'.kind = "add_exercise" /\ ~RecordValid(op'.arg)) =>
             /\ op'.res.tag = "raise"
             /\ rows' = rows
             /\ seq' = seq]_vars

\* a record with reps = 0 was refused by the table, which holds other rows
C19_Witness ==
    /\ op.kind = "add_exercise"
    /\ op.arg.reps = 0
    /\ op.res.tag = "raise"
    /\ op.res.exc = "IntegrityError"
    /\ rows # {}

\* C20: a row keeps its fields as long as it is stored, and its id is never
\* given to another row (new rows get ids above every id given before);
\* only add_exercise and delete_exercise change the set of rows, and the
\* queries leave the store as it was.
C20_RowsNeverMutated ==
    [][/\ \A r \in rows, r2 \in rows' : r.id = r2.id => r = r2
       /\ \A r \in rows' \ rows : r.id > seq /\ r.id <= seq'
       /\ \A r \in rows : r.id <= seq
       /\ seq' >= seq
       /\ rows' # rows => op'.kind \in {"add_exercise", "delete_exercise"}
       /\ op'.kind \in {"get_today_exercises", "get_max_weight", "get_last_exercise",
                        "get_exercise_history", "get_all_exercise_names"} =>
             (rows' = rows /\ seq' = seq)]_vars

\* a row was added after the row of the largest id had been deleted: the
\* new id is above the deleted one
C20_Witness ==
    /\ op.kind = "add_exercise"
    /\ op.res.tag = "return"
    /\ op.res.val = 3
    /\ Ids(rows) = {1, 3}

(***************************************************************************)
(* Claims C21..C30.                                                        *)
(***************************************************************************)

\* C21: init_db on a store that is already initialized, at any point of a
\* run and however often, raises nothing, leaves the store initialized and
\* leaves the rows and the ids given so far as they were.
C21_InitIdempotent ==
    [][(op'.kind = "init_db" /\ initialized) =>
          /\ op'.res = Return(None)
          /\ initialized'
          /\ rows' = rows
          /\ seq' = seq]_vars

\* init_db was called on a store that holds a row and has given an id that
\* no row holds any more
C21_Witness ==
    /\ op.kind = "init_db"
    /\ rows # {}
    /\ seq > Max(Ids(rows))

\* caller c ends a call of the given kind in this step by returning
Completes(c, kind) ==
    /\ inflight[c].pc = "written"
    /\ inflight'[c].pc = "idle"
    /\ inflight'[c].call.kind = kind
    /\ inflight'[c].res.tag = "return"

\* C22: with calls of concurrent callers interleaved, an add that completes
\* has put exactly its one whole row into the store, under an id above
\* every id given before, a delete that completes has removed the rows of
\* its id and nothing else, and no other step changes the stored rows or
\* the ids given: no row is stored in part, no committed row is lost, and
\* no two adds return the same id.
C22_ConcurrentAtomic ==
    [][/\ \A r \in rows' : RowValid(r)
       /\ \A c \in Callers :
             /\ Completes(c, "add_exercise") =>
                   /\ inflight'[c].res.val > seq
                   /\ seq' = inflight'[c].res.val
                   /\ rows' = rows \cup {InsertedRow(inflight'[c].call.arg,
                                                     inflight'[c].res.val)}
             /\ Completes(c, "delete_exercise") =>
                   /\ rows' = {r \in rows : r.id # inflight'[c].call.arg}
                   /\ seq' = seq
                   /\ inflight'[c].res.val = (inflight'[c].call.arg \in Ids(rows))
       /\ (\A c \in Callers : ~Completes(c, "add_exercise") /\ ~Completes(c, "delete_exercise"))
             => (rows' = rows /\ seq' = seq)
       /\ \A c, d \in Callers :
             (/\ c # d
              /\ inflight'[c].pc = "idle" /\ inflight'[c].res # None
              /\ inflight'[d].pc = "idle" /\ inflight'[d].res # None
              /\ inflight'[c].call.kind = "add_exercise"
              /\ inflight'[d].call.kind = "add_exercise"
              /\ inflight'[c].res.tag = "return"
              /\ inflight'[d].res.tag = "return")
             => inflight'[c].res.val # inflight'[d].res.val]_vars

\* one caller's add was committed under id 2 after the other caller's
\* delete had met the lock it held, and both rows are stored
C22_Witness ==
    /\ inflight["a"].pc = "idle"
    /\ inflight["a"].call # None
    /\ inflight["a"].call.kind = "add_exercise"
    /\ inflight["a"].res = Return(2)
    /\ inflight["b"].pc = "idle"
    /\ inflight["b"].res = Locked
    /\ inflight["b"].call.kind = "delete_exercise"
    /\ inflight["b"].call.arg = 1
    /\ Ids(rows) = {1, 2}

(***************************************************************************)
(* parse_exercise_input on the notations of one weight, reps and sets.     *)
(***************************************************************************)
\* "80", "80.5", "0", "100", "2"
TripleWeights == {<<"8", "0">>, <<"8", "0", ".", "5">>, <<"0">>, <<"1", "0", "0">>, <<"2">>}

TripleReps == {<<"8">>, <<"0">>, <<"1", "0">>, <<"1">>}

TripleSets == {<<"3">>, <<"0">>, <<"1", "2">>, <<"1">>}

TripleInputs ==
    {[w |-> w, r |-> r, s |-> s] : w \in TripleWeights, r \in TripleReps, s \in TripleSets}

\* "<w> <r>x<s>", "<w> <r> <s>", "<w>kg <r>x<s>", "<w>кг <r>x<s>"
TripleForms(f) ==
    << f.w \o <<" ">> \o f.r \o <<"x">> \o f.s,
       f.w \o <<" ">> \o f.r \o <<" ">> \o f.s,
       f.w \o <<"k", "g", " ">> \o f.r \o <<"x">> \o f.s,
       f.w \o <<"~k", "~g", " ">> \o f.r \o <<"x">> \o f.s >>

\* "", "80", "80 8", "80 8x", "80 8 3 4", "x", "жим 80 8x3", "80kg 8 3",
\* "80кг 8 3": texts that none of the four patterns matches
NoShapeTexts ==
    { <<>>,
      <<"8", "0">>,
      <<"8", "0", " ", "8">>,
      <<"8", "0", " ", "8", "x">>,
      <<"8", "0", " ", "8", " ", "3", " ", "4">>,
      <<"x">>,
      Zhim \o <<" ", "8", "0", " ", "8", "x", "3">>,
      <<"8", "0", "k", "g", " ", "8", " ", "3">>,
      <<"8", "0", "~k", "~g", " ", "8", " ", "3">> }

InitTriple ==
    /\ initialized = FALSE
    /\ rows = {}
    /\ seq = 0
    /\ now = 0
    /\ conn = NoConnection
    /\ inflight = NoCalls
    /\ \/ \E f \in TripleInputs : op = Op("triple", f, None)
       \/ \E t \in NoShapeTexts : op = Op("text", t, None)

\* parse_exercise_input on each notation of the same numbers
ParseTripleForms ==
    /\ op.kind = "triple"
    /\ op' = Op("parse_triple_forms", op.arg,
                [i \in 1..4 |-> parse_exercise_input(TripleForms(op.arg)[i])])
    /\ UNCHANGED <<initialized, rows, seq, now, conn, inflight>>

NextTriple == ParseTripleForms \/ ParseExerciseInput

SpecTriple == InitTriple /\ [][NextTriple]_vars

C24_XPatternFirst ==
    op.kind = "parse_add_input" =>
        LET t == parse_voice_numbers(op.arg)
        IN  IF MatchAdd(t, TRUE) # None
            THEN op.res = ExerciseFromMatch(MatchAdd(t, TRUE)[1], now)
            ELSE IF MatchAdd(t, FALSE) # None
            THEN op.res = ExerciseFromMatch(MatchAdd(t, FALSE)[1], now)
            ELSE op.res = Raise("ValueError", FormatHint)

\* "жим 80 8 3 5x5": pattern_spaces matches with name "жим", weight 80 and
\* note "5x5", pattern_x with name "жим 80 8" and weight 3, and the record is
\* the one of pattern_x
C24_Witness ==
    /\ op.kind = "parse_add_input"
    /\ op.arg = Zhim \o <<" ", "8", "0", " ", "8", " ", "3", " ", "5", "x", "5">>
    /\ MatchAdd(op.arg, FALSE) # None
    /\ MatchAdd(op.arg, FALSE)[1].name = Zhim
    /\ MatchAdd(op.arg, FALSE)[1].note = Some(<<"5", "x", "5">>)
    /\ MatchAdd(op.arg, TRUE) # None
    /\ op.res.tag = "return"
    /\ op.res.val.name = Zhim \o <<" ", "8", "0", " ", "8">>
    /\ op.res.val.weight = RatInt(3)
    /\ op.res.val.reps = 5
    /\ op.res.val.sets = 5
    /\ op.res.val.note = None

(***************************************************************************)
(* parse_add_input on texts put together from a name, a weight with or     *)
(* without its unit, reps, sets and what follows them.                     *)
(***************************************************************************)
\* "жим", "жим лежа", "присед"
NotedNames == {Zhim, ZhimLezha, <<"~p", "~r", "~i", "~s", "~e", "~d">>}

\* "80", "100", "80.5"
NotedWeights == {<<"8", "0">>, <<"1", "0", "0">>, <<"8", "0", ".", "5">>}

\* "", "кг", "kg", " кг", "КГ"
NotedUnits == {<<>>, <<"~k", "~g">>, <<"k", "g">>, <<" ">> \o <<"~k", "~g">>, <<"~K", "~G">>}

NotedReps == {<<"5">>, <<"8">>}

\* "x", " "
NotedSeps == {<<"x">>, <<" ">>}

NotedSets == {<<"4">>, <<"3">>}

\* "", " ", " ок", " тяжело было", "  тяжело  было ", " два раза"
NotedTails ==
    { <<>>, <<" ">>, <<" ", "~o", "~k">>,
      <<" ", "~t", "~ya", "~zh", "~e", "~l", "~o", " ", "~b", "~y", "~l", "~o">>,
      <<" ", " ", "~t", "~ya", "~zh", "~e", "~l", "~o", " ", " ", "~b", "~y", "~l", "~o", " ">>,
      <<" ", "~d", "~v", "~a", " ", "~r", "~a", "~z", "~a">> }

NotedInputs ==
    {[name |-> n, w |-> w, unit |-> u, r |-> r, sep |-> sep, s |-> s, tail |-> tail] :
        n \in NotedNames, w \in NotedWeights, u \in NotedUnits, r \in NotedReps,
        sep \in NotedSeps, s \in NotedSets, tail \in NotedTails}

NotedText(f) == f.name \o <<" ">> \o f.w \o f.unit \o <<" ">> \o f.r \o f.sep \o f.s \o f.tail

InitNoted ==
    /\ initialized = FALSE
    /\ rows = {}
    /\ seq = 0
    /\ now = 0
    /\ conn = NoConnection
    /\ inflight = NoCalls
    /\ \E f \in NotedInputs : op = Op("noted", f, None)

ParseNoted ==
    /\ op.kind = "noted"
    /\ op' = Op("parse_noted", op.arg, parse_add_input(NotedText(op.arg), now))
    /\ UNCHANGED <<initialized, rows, seq, now, conn, inflight>>

NextNoted == ParseNoted

SpecNoted == InitNoted /\ [][NextNoted]_vars

\* what follows the three numbers in the normalized text, trimmed
TrimmedTail(f) == Strip(parse_voice_numbers(f.tail))

\* C25: in both patterns the record's note is the text that follows the
\* three numbers in the normalized text, trimmed, when there is any, and
\* None when nothing or only blanks follow; the unit after the weight, given
\* or not, changes no extracted value.
C25_NoteAndUnit ==
    op.kind = "parse_noted" =>
        /\ op.res.tag = "return"
        /\ op.res.val.name = op.arg.name
        /\ op.res.val.weight = ToFloat(op.arg.w)
        /\ op.res.val.reps = ToInt(op.arg.r)
        /\ op.res.val.sets = ToInt(op.arg.s)
        /\ op.res.val.note =
              IF TrimmedTail(op.arg) = <<>> THEN None ELSE Some(TrimmedTail(op.arg))

\* "присед 100кг 5 4 тяжело было" gave name "присед", weight 100, reps 5,
\* sets 4 and the note "тяжело было"
C25_Witness ==
    /\ op.kind = "parse_noted"
    /\ NotedText(op.arg) = 
          <<"~p", "~r", "~i", "~s", "~e", "~d", " ", "1", "0", "0", "~k", "~g", " ", "5", " ", "4",
            " ", "~t", "~ya", "~zh", "~e", "~l", "~o", " ", "~b", "~y", "~l", "~o">>
    /\ op.res.tag = "return"
    /\ op.res.val.name = <<"~p", "~r", "~i", "~s", "~e", "~d">>
    /\ op.res.val.weight = RatInt(100)
    /\ op.res.val.reps = 5
    /\ op.res.val.sets = 4
    /\ op.res.val.note = Some(<<"~t", "~ya", "~zh", "~e", "~l", "~o", " ", "~b", "~y", "~l", "~o">>)

\* C26: parse_add_input normalizes the whole text before it matches: for
\* every text its outcome, the record or the error, is the outcome for the
\* normalized text.
C26_NormalizedFirst ==
    op.kind = "parse_add_input" =>
        op.res = parse_add_input(parse_voice_numbers(op.arg), now)

\* "становая восемьдесят 5x3" gave weight 80, reps 5, sets 3
C26_Witness ==
    /\ op.kind = "parse_add_input"
    /\ op.arg =
          <<"~s", "~t", "~a", "~n", "~o", "~v", "~a", "~ya", " ", "~v", "~o", "~s", "~e", "~m",
            "~q", "~d", "~e", "~s", "~ya", "~t", " ", "5", "x", "3">>
    /\ parse_voice_numbers(op.arg) # op.arg
    /\ op.res.tag = "return"
    /\ op.res.val.name = <<"~s", "~t", "~a", "~n", "~o", "~v", "~a", "~ya">>
    /\ op.res.val.weight = RatInt(80)
    /\ op.res.val.reps = 5
    /\ op.res.val.sets = 3

\* the store calls of the front ends (cli_add holds the add_exercise of gym add)
FrontStoreCalls ==
    {"add_exercise", "get_today_exercises", "get_max_weight", "get_last_exercise",
     "get_exercise_history", "cli_add"}

\* C27: in the CLI and in the bot every add, today, max, last and history
\* call comes directly after the get_db of its command, so on a database on
\* which init_db has completed: none of them meets a missing table.
C27_InitBeforeStoreCalls ==
    [][op'.kind \in FrontStoreCalls =>
          /\ op.kind = "get_db"
          /\ initialized
          /\ op'.res # NoTable]_vars

\* the first command on a new database was a today query, and it was answered
C27_Witness ==
    /\ op.kind = "get_today_exercises"
    /\ op.res = Return(<<>>)
    /\ initialized
    /\ seq = 0

\* C28: seq is the largest id add_exercise has returned; an add that returns
\* gives an id above seq and makes it the new seq, nothing else changes seq,
\* and a delete that succeeds removes an id that is at most seq: the ids
\* returned are strictly increasing and a deleted id is never returned again,
\* also when the deleted row held the largest id.
C28_IdsIncreaseNeverReused ==
    [][/\ (op'.kind = "add_exercise" /\ op'.res.tag = "return") =>
             /\ op'.res.val > seq
             /\ op'.res.val \notin Ids(rows)
             /\ op'.res.val \in Ids(rows')
             /\ seq' = op'.res.val
       /\ ~(op'.kind = "add_exercise" /\ op'.res.tag = "return") => seq' = seq
       /\ (op'.kind = "delete_exercise" /\ op'.res = Return(TRUE)) =>
             /\ op'.arg \in Ids(rows)
             /\ op'.arg <= seq
             /\ op'.arg \notin Ids(rows')]_vars

\* every row given an id so far was deleted, the row of the largest id
\* included, and the next add still got a new id
C28_Witness ==
    /\ op.kind = "add_exercise"
    /\ op.res = Return(3)
    /\ Ids(rows) = {3}
    /\ seq = 3

\* C29: parse_exercise_input returns the triple as written, a zero count
\* included ("80 0x3" gives (80, 0, 3), "80 8x0" gives (80, 8, 0)); in gym add
\* a triple whose reps or sets are below 1 ends in the ValueError of Exercise:
\* add_exercise is not called, no connection is opened and no row is added.
C29_CliRangeCheckedByRecord ==
    [][op'.kind = "cli_add" =>
          /\ op'.res.parsed = parse_exercise_input(op'.arg.params)
          /\ op'.arg.params = <<"8", "0", " ", "0", "x", "3">> =>
                op'.res.parsed = Return(<<RatInt(80), 0, 3>>)
          /\ op'.arg.params = <<"8", "0", " ", "8", "x", "0">> =>
                op'.res.parsed = Return(<<RatInt(80), 8, 0>>)
          /\ (/\ op'.res.parsed.tag = "return"
              /\ (op'.res.parsed.val[2] < 1 \/ op'.res.parsed.val[3] < 1)) =>
                /\ op'.res.tag = "raised"
                /\ rows' = rows
                /\ seq' = seq
                /\ conn' = conn]_vars

\* gym add "жим" 80 0x3 on a store holding a row: the triple was parsed, the
\* record was refused and the store still holds that one row
C29_Witness ==
    /\ op.kind = "cli_add"
    /\ op.arg.name = Zhim
    /\ op.arg.params = <<"8", "0", " ", "0", "x", "3">>
    /\ op.res.parsed = Return(<<RatInt(80), 0, 3>>)
    /\ op.res.tag = "raised"
    /\ Cardinality(rows) = 1

(***************************************************************************)
(* parse_add_input on spoken input: a name, then weight, reps and sets     *)
(* each as a number word or as digits, with a blank, " кг " or " x "       *)
(* between them.                                                           *)
(***************************************************************************)
\* "жим", "жим лежа", "подход 1 5"
SpokenNames == {Zhim, ZhimLezha, <<"~p", "~o", "~d", "~h", "~o", "~d", " ", "1", " ", "5">>}

\* "восемьдесят", "сто"
SpokenWeightWords ==
    { <<"~v", "~o", "~s", "~e", "~m", "~q", "~d", "~e", "~s", "~ya", "~t">>,
      <<"~s", "~t", "~o">> }

\* "восемь", "пять"
SpokenRepsWords == {<<"~v", "~o", "~s", "~e", "~m", "~q">>, <<"~p", "~ya", "~t", "~q">>}

\* "три", "Четыре"
SpokenSetsWords == {<<"~t", "~r", "~i">>, <<"~CH", "~e", "~t", "~y", "~r", "~e">>}

\* " ", " кг "
SpokenWeightGaps == {<<" ">>, <<" ", "~k", "~g", " ">>}

\* " ", " x "
SpokenRepsGaps == {<<" ">>, <<" ", "x", " ">>}

\* wd, rd, sd: the value is typed in digits instead of spoken
SpokenInputs ==
    {[name |-> n, w |-> w, wd |-> wd, g1 |-> g1, r |-> r, rd |-> rd, g2 |-> g2,
      s |-> s, sd |-> sd] :
        n \in SpokenNames, w \in SpokenWeightWords, wd \in BOOLEAN, g1 \in SpokenWeightGaps,
        r \in SpokenRepsWords, rd \in BOOLEAN, g2 \in SpokenRepsGaps,
        s \in SpokenSetsWords, sd \in BOOLEAN}

Said(word, digits) == IF digits THEN ToDecimal(WordValue(word)) ELSE word

SpokenText(f) ==
    f.name \o <<" ">> \o Said(f.w, f.wd) \o f.g1 \o Said(f.r, f.rd) \o f.g2 \o Said(f.s, f.sd)

InitSpoken ==
    /\ initialized = FALSE
    /\ rows = {}
    /\ seq = 0
    /\ now = 0
    /\ conn = NoConnection
    /\ inflight = NoCalls
    /\ \E f \in SpokenInputs : op = Op("spoken", f, None)

ParseSpoken ==
    /\ op.kind = "spoken"
    /\ op' = Op("parse_spoken", op.arg, parse_add_input(SpokenText(op.arg), now))
    /\ UNCHANGED <<initialized, rows, seq, now, conn, inflight>>

NextSpoken == ParseSpoken

SpecSpoken == InitSpoken /\ [][NextSpoken]_vars

\* all three values are number words and only blanks stand between them
AllSpelledSpaced(f) ==
    /\ ~f.wd /\ ~f.rd /\ ~f.sd
    /\ f.g1 = <<" ">>
    /\ f.g2 = <<" ">>

\* two of the values are number words with only a blank between them
AdjacentWords(f) ==
    \/ ~f.wd /\ ~f.rd /\ f.g1 = <<" ">>
    \/ ~f.rd /\ ~f.sd /\ f.g2 = <<" ">>

\* the record holds the three values that were said
GivesValues(f, res) ==
    /\ res.tag = "return"
    /\ res.val.weight = RatInt(WordValue(f.w))
    /\ res.val.reps = WordValue(f.r)
    /\ res.val.sets = WordValue(f.s)

\* the name, then the sum of the three values as one number
MergedText(f) ==
    Join(Split(f.name)) \o <<" ">> \o ToDecimal(WordValue(f.w) + WordValue(f.r) + WordValue(f.s))

====
